-------------------------- MODULE ConflictAnalysis --------------------------
(***************************************************************************)
(* The conflict analysis that follows a registration or an update          *)
(* (workers/tasks.py), together with the registry it reads.  The request   *)
(* that committed runs it inline, after the response: the shim of the same *)
(* name shadows the Celery task, so its `.delay` raises and the fallback   *)
(* is what executes.                                                       *)
(*                                                                         *)
(* An analysis is one database session: it loads the candidate and then    *)
(* the other active tools, calls the embedding service, writes the search  *)
(* index (which no rollback undoes), searches it, and commits.  Between    *)
(* any two of these the handlers of other requests run.                    *)
(***************************************************************************)
EXTENDS ToolRegistry

CONSTANTS
  EnvOf,     \* the environment of each key
  NameOf,    \* the tool name of each key
  Lower,     \* the lower-case form of each name
  Overlap,   \* definitions that stages 1 and 2 report with severity MEDIUM
  Near       \* embeddings whose cosine similarity reaches the threshold

\* A digest and an embedding stand for the text they are computed from: the
\* name, the server (both of them fixed by the key) and the definition.
Text == Key \X Description \X Schema

Name == {NameOf[k] : k \in Key}

Definition == Name \X Schema

ASSUME AnalysisAssumption ==
  /\ Text \subseteq Hash
  /\ Text \subseteq Embedding
  /\ DOMAIN EnvOf = Key
  /\ DOMAIN NameOf = Key
  /\ DOMAIN Lower = Name
  /\ Overlap \subseteq Definition \X Definition
  /\ \A a, b \in Definition : <<a, b>> \in Overlap => <<b, a>> \in Overlap
  /\ Near \subseteq Embedding \X Embedding

\* What stages 1 to 3 report: the other tool is known by its name only.
Finding ==
  [kind : {"exact_name", "overlap", "semantic"}, name : Name,
   schemas : (Schema \X Schema) \cup {<<>>}]

\* A row of `conflicts`.
Conflict == [finding : Finding, tools : SUBSET Tool]

\* A row of `analysis_runs` with its conflicts.
AnalysisRun ==
  [tool : Tool, status : {"completed", "failed"},
   conflicts : SUBSET Conflict]

Stage == {"none", "candidate", "loaded", "embedded", "searched"}

\* The session of an analysis: the candidate as loaded and as changed, the
\* ids of existing_tools and what the pipeline has found.
Job ==
  [stage : Stage, seen : Row \cup {NoRow}, mine : Row \cup {NoRow},
   peers : SUBSET Tool, found : SUBSET Finding]

VARIABLES
  job,      \* the analysis of each request that is in the background
  index,    \* the search index: the embedding stored for each tool, or None
  runs,     \* committed analysis runs (rows that are equal are one element)
  lost      \* history variable: tools with background work that was lost
            \* without a row that says so

analysisVars == <<tool, history, req, job, index, runs, lost>>

-----------------------------------------------------------------------------
JobAt(stage, seen, mine, peers, found) ==
  [stage |-> stage, seen |-> seen, mine |-> mine, peers |-> peers,
   found |-> found]

NoJob == JobAt("none", NoRow, NoRow, {}, {})

AnalysisInit ==
  /\ Init
  /\ job = [r \in Request |-> NoJob]
  /\ index = [t \in Tool |-> None]
  /\ runs = {}
  /\ lost = {}

Fingerprint(row) == <<row.key, row.description, row.input_schema>>

DefinitionOf(row) == <<NameOf[row.key], row.input_schema>>

Active(t) == Live(t) /\ tool[t].status = "active"

\* Fault: only tools that have been embedded count as existing.
EmbeddedPeers(t) ==
  {u \in Tool \ {t} : /\ Active(u) /\ tool[u].embedding # None
                      /\ EnvOf[tool[u].key] = EnvOf[tool[t].key]}

Peers(t) ==
  {u \in Tool \ {t} : Active(u) /\ EnvOf[tool[u].key] = EnvOf[tool[t].key]}

FindingOf(kind, name, schemas) ==
  [kind |-> kind, name |-> name, schemas |-> schemas]

SameName(row, other) == Lower[NameOf[row.key]] = Lower[NameOf[other.key]]

(* Stages 1 and 2: a name that is equal but for case is CRITICAL, every    *)
(* other finding is MEDIUM.                                                *)
Static(row, others) ==
  {FindingOf("exact_name", NameOf[o.key], <<>>) :
     o \in {p \in others : SameName(row, p)}}
  \cup
  {FindingOf("overlap", NameOf[o.key], <<row.input_schema, o.input_schema>>) :
     o \in {p \in others : <<DefinitionOf(row), DefinitionOf(p)>> \in Overlap}}

Critical(found) == \E f \in found : f.kind = "exact_name"

At(r, stage) == req[r].op = "background" /\ job[r].stage = stage

\* Other requests and the bookkeeping of this one when its analysis ends.
Ended(r) ==
  /\ job' = [job EXCEPT ![r] = NoJob]
  /\ req' = [req EXCEPT ![r] = Idle]

\* The candidate is gone: "skipped".
AnalysisSkip(r) ==
  /\ At(r, "none")
  /\ ~Live(req[r].tool)
  /\ Ended(r)
  /\ UNCHANGED <<tool, history, index, runs, lost>>

LoadCandidate(r) ==
  /\ At(r, "none")
  /\ Live(req[r].tool)
  /\ job' = [job EXCEPT ![r] = JobAt("candidate", tool[req[r].tool],
                                     tool[req[r].tool], {}, {})]
  /\ UNCHANGED <<tool, history, req, index, runs, lost>>

(* existing_tools, and what stages 1 and 2 will say of them: they depend   *)
(* on nothing that is read later.  The row RUNNING is only flushed: nobody *)
(* else sees it before the commit.                                         *)
LoadPeers(r) ==
  LET peers == Peers(req[r].tool)
  IN  /\ At(r, "candidate")
      /\ job' = [job EXCEPT ![r] =
                   JobAt("loaded", @.seen, @.mine, peers,
                         Static(@.seen, {tool[u] : u \in peers}))]
      /\ UNCHANGED <<tool, history, req, index, runs, lost>>

Stale(row) == row.hash # Fingerprint(row)

\* Fault: the vector goes to the index only.
RefreshedHash(row) == WithHash(row, Fingerprint(row))

Refreshed(row) == Embedded(row, Fingerprint(row), Fingerprint(row))

(* The embedding is computed and stored in the session, and the index is   *)
(* written at once.  A document that the service refuses is only logged.   *)
Refresh(r) ==
  LET t == req[r].tool
      row == job[r].seen
  IN  /\ At(r, "loaded")
      /\ IF Stale(row)
         THEN /\ job' = [job EXCEPT ![r] =
                           JobAt("embedded", row, Refreshed(row), @.peers, @.found)]
              /\ \/ index' = [index EXCEPT ![t] = Fingerprint(row)] /\ lost' = lost
                 \/ index' = index /\ lost' = lost \cup {t}
         ELSE /\ job' = [job EXCEPT ![r] =
                           JobAt("embedded", row, @.mine, @.peers, @.found)]
              /\ UNCHANGED <<index, lost>>
      /\ UNCHANGED <<tool, history, req, runs>>

(* Stage 3, skipped when stage 1 was CRITICAL.  The query has no filter:   *)
(* any document of the index may come back, the candidate's own and those  *)
(* of deleted tools too, and the approximate search may leave some out.    *)
Hits(t, row) ==
  {u \in Tool : /\ index[u] # None
                /\ \/ index[u] = Fingerprint(row)
                   \/ <<Fingerprint(row), index[u]>> \in Near}

Search(r) ==
  LET row == job[r].seen
  IN  /\ At(r, "embedded")
      /\ \E hits \in SUBSET Hits(req[r].tool, row) :
           /\ Critical(job[r].found) => hits = {}
           /\ job' = [job EXCEPT ![r] =
                JobAt("searched", row, @.mine, @.peers, @.found \cup
                  {FindingOf("semantic", NameOf[tool[u].key], <<>>) : u \in hits})]
      /\ UNCHANGED <<tool, history, req, index, runs, lost>>

\* Fault: a name that no peer has is recorded as an id all the same.
RecordedUnchecked(t, f, first) ==
  [finding |-> f, tools |-> {t, first[f.name]}]

(* What the conflict row of a finding says: the candidate and the first of *)
(* existing_tools with the reported name, if there is one.                 *)
Recorded(t, f, first) ==
  [finding |-> f, tools |-> {t} \cup ({first[f.name]} \ {NoTool})]

\* The order of existing_tools is the database's: any peer of a name may be
\* the first one.
Firsts(peers) ==
  {first \in [Name -> peers \cup {NoTool}] :
     \A n \in Name :
       IF \E u \in peers : NameOf[tool[u].key] = n
       THEN first[n] \in peers /\ NameOf[tool[first[n]].key] = n
       ELSE first[n] = NoTool}

\* Fault: the session's copy of the candidate is written back whole.
CommittedWhole(r, status, mine, conflicts) ==
  LET t == req[r].tool
  IN  /\ tool' = [tool EXCEPT ![t] = mine]
      /\ runs' = runs \cup
           {[tool |-> t, status |-> status, conflicts |-> conflicts]}
      /\ Ended(r)
      /\ UNCHANGED history

(* The single commit: the embedding columns, the run, its conflicts.       *)
Committed(r, status, mine, conflicts) ==
  LET t == req[r].tool
  IN  /\ tool' = [tool EXCEPT ![t] = Flush(tool[t], job[r].seen, mine)]
      /\ runs' = runs \cup
           {[tool |-> t, status |-> status, conflicts |-> conflicts]}
      /\ Ended(r)
      /\ UNCHANGED history

Complete(r) ==
  /\ At(r, "searched")
  /\ \E first \in Firsts(job[r].peers) :
       Committed(r, "completed", job[r].mine,
         {Recorded(req[r].tool, f, first) : f \in job[r].found})
  /\ UNCHANGED <<index, lost>>

(* The except branch: FAILED is committed with whatever the session holds. *)
\* embed() raised: no column was set.
EmbedFails(r) ==
  /\ At(r, "loaded")
  /\ Stale(job[r].seen)
  /\ Committed(r, "failed", job[r].seen, {})
  /\ UNCHANGED <<index, lost>>

\* The upsert raised, although its write may have taken effect.
UpsertFails(r) ==
  LET row == job[r].seen
  IN  /\ At(r, "loaded")
      /\ Stale(row)
      /\ Committed(r, "failed", Refreshed(row), {})
      /\ index' \in {index, [index EXCEPT ![req[r].tool] = Fingerprint(row)]}
      /\ UNCHANGED lost

\* embed() of a candidate with a fresh hash, or the search, raised.
SearchFails(r) ==
  /\ At(r, "embedded")
  /\ ~Critical(job[r].found)
  /\ Committed(r, "failed", job[r].mine, {})
  /\ UNCHANGED <<index, lost>>

AnalysisStep(r) ==
  \/ AnalysisSkip(r)
  \/ LoadCandidate(r)
  \/ LoadPeers(r)
  \/ Refresh(r)
  \/ Search(r)
  \/ Complete(r)
  \/ EmbedFails(r)
  \/ UpsertFails(r)
  \/ SearchFails(r)

(* A handler of the registry; Abandon ends an analysis, whose session is   *)
(* rolled back.                                                            *)
RegistryStep(r) ==
  /\ Handler(r)
  /\ job' = [job EXCEPT ![r] = NoJob]
  /\ lost' = IF req[r].op = "background" THEN lost \cup {req[r].tool} ELSE lost
  /\ UNCHANGED <<index, runs>>

AnalysisNext == \E r \in Request : RegistryStep(r) \/ AnalysisStep(r)

AnalysisSpec == AnalysisInit /\ [][AnalysisNext]_analysisVars

-----------------------------------------------------------------------------
(* Every variable has its type.                                            *)
AnalysisTypeOK ==
  /\ TypeOK
  /\ job \in [Request -> Job]
  /\ index \in [Tool -> Embedding \cup {None}]
  /\ runs \subseteq AnalysisRun
  /\ lost \subseteq Tool

(* The analysis is one of the background analyses the registry allows:     *)
(* whatever it interleaves with, it changes the embedding columns of its   *)
(* own tool and nothing else of the registry.                              *)
ImplementsRegistry == Spec

\* Stages 1 or 2 would report the live definitions of t and u.
Collide(t, u) ==
  /\ Active(t) /\ Active(u)
  /\ EnvOf[tool[t].key] = EnvOf[tool[u].key]
  /\ Static(tool[t], {tool[u]}) # {}

\* A completed analysis of t recorded all of that against the name of u.
ReportedBy(t, u) ==
  \E run \in runs :
    /\ run.tool = t
    /\ run.status = "completed"
    /\ Static(tool[t], {tool[u]}) \subseteq {c.finding : c \in run.conflicts}

Analysing(t) == \E r \in Request : req[r].op = "background" /\ req[r].tool = t

Failed(t) == \E run \in runs : run.tool = t /\ run.status = "failed"

(* FR-CON-001: of two active tools whose definitions collide, one has a    *)
(* completed analysis that recorded it, is still being analysed, or has an *)
(* analysis that failed or was lost; however the registrations, updates    *)
(* and analyses of the two overlapped, each one's reading the other before *)
(* the other's change included.                                            *)
NoConflictMissed ==
  \A t, u \in Tool :
    (t # u /\ Collide(t, u)) =>
      \/ ReportedBy(t, u) \/ ReportedBy(u, t)
      \/ \E v \in {t, u} : Analysing(v) \/ Failed(v) \/ v \in lost

(* A stored hash comes with a stored embedding, although the UPDATE of an  *)
(* analysis writes only the one of the two columns that changed.           *)
HashedMeansEmbedded ==
  \A t \in Tool :
    Exists(t) /\ tool[t].hash # None => tool[t].embedding # None

-----------------------------------------------------------------------------
(* docs/failure-mode-analysis.md on the embedding service: "Stages 1-2     *)
(* still run; lexical conflicts still caught".                             *)
LexicalConflictsStillCaught ==
  \A t, u \in Tool :
    (t # u /\ Collide(t, u)) =>
      \/ ReportedBy(t, u) \/ ReportedBy(u, t)
      \/ \E v \in {t, u} : Analysing(v) \/ v \in lost

(* models/tool.py on the embedding column: it "mirrors what's in Azure AI  *)
(* Search".  Stated when no analysis is in progress, failed or was lost.   *)
EmbeddingMirrorsIndex ==
  \A t \in Tool :
    (Exists(t) /\ ~Analysing(t) /\ ~Failed(t) /\ t \notin lost) =>
      tool[t].embedding = index[t]
=============================================================================
