----------------------- MODULE ConflictAnalysisProofs -----------------------
(***************************************************************************)
(* The registry with its conflict analysis implements the registry alone:  *)
(* an analysis changes the embedding columns of its own tool and nothing   *)
(* else.  What is proved of the registry then holds with the analysis.     *)
(* The second part follows the two embedding columns, the third the        *)
(* conflicts between two active tools.                                     *)
(***************************************************************************)
EXTENDS ConflictAnalysis, ToolRegistryProofs

\* The columns that an analysis never assigns.
SameDefinition(a, b) ==
  /\ a.key = b.key
  /\ a.description = b.description
  /\ a.input_schema = b.input_schema
  /\ a.status = b.status
  /\ a.version = b.version
  /\ a.is_deleted = b.is_deleted

\* An analysis in progress belongs to a request in the background and has
\* changed the embedding columns of its copy only.
JobOK(r) ==
  job[r].stage # "none" =>
    /\ req[r].op = "background"
    /\ job[r].seen \in Row
    /\ job[r].mine \in Row
    /\ SameDefinition(job[r].mine, job[r].seen)

JobsOK ==
  /\ DOMAIN job = Request
  /\ \A r \in Request : JobOK(r)

-----------------------------------------------------------------------------
(* What the unit of work makes of the commit of an analysis: the row of    *)
(* the table with new embedding columns.                                   *)
LEMMA FlushedEmbedding ==
  ASSUME NEW row \in Row, NEW seen \in Row, NEW mine \in Row,
         SameDefinition(mine, seen)
  PROVE  \E h \in Hash \cup {None}, e \in Embedding \cup {None} :
           Flush(row, seen, mine) = Embedded(row, h, e)
<1>. DEFINE h == Col(row.hash, seen.hash, mine.hash)
            e == Col(row.embedding, seen.embedding, mine.embedding)
<1>1. h \in Hash \cup {None} /\ e \in Embedding \cup {None}
  BY DEF Col, Row
<1>2. Flush(row, seen, mine) =
        [key |-> row.key, description |-> row.description,
         input_schema |-> row.input_schema, status |-> row.status,
         version |-> row.version, is_deleted |-> row.is_deleted,
         hash |-> h, embedding |-> e]
  BY DEF Flush, Col, SameDefinition
<1>3. Embedded(row, h, e) =
        [key |-> row.key, description |-> row.description,
         input_schema |-> row.input_schema, status |-> row.status,
         version |-> row.version, is_deleted |-> row.is_deleted,
         hash |-> h, embedding |-> e]
  <2>. HIDE DEF h, e
  <2>1. WithHash(row, h) =
          [key |-> row.key, description |-> row.description,
           input_schema |-> row.input_schema, status |-> row.status,
           version |-> row.version, is_deleted |-> row.is_deleted,
           hash |-> h, embedding |-> row.embedding]
    BY DEF WithHash, Row
  <2>. QED BY <2>1 DEF Embedded
<1>. QED BY <1>1, <1>2, <1>3

(* The texts of a row are a hash and an embedding.                         *)
LEMMA RefreshedRow ==
  ASSUME NEW row \in Row
  PROVE  /\ Fingerprint(row) \in Hash
         /\ Fingerprint(row) \in Embedding
         /\ Refreshed(row) \in Row
         /\ SameDefinition(Refreshed(row), row)
         /\ Refreshed(row).hash = Fingerprint(row)
         /\ Refreshed(row).embedding = Fingerprint(row)
<1>1. Fingerprint(row) \in Hash /\ Fingerprint(row) \in Embedding
  BY AnalysisAssumption DEF Fingerprint, Text, Row
<1>. DEFINE f == Fingerprint(row)
            half == WithHash(row, f)
<1>. HIDE DEF f
<1>2. /\ half \in Row
      /\ half.hash = f
      /\ SameDefinition(half, row)
  BY <1>1 DEF WithHash, Row, SameDefinition, f
<1>. HIDE DEF half
<1>3. /\ [half EXCEPT !.embedding = f] \in Row
      /\ [half EXCEPT !.embedding = f].hash = f
      /\ [half EXCEPT !.embedding = f].embedding = f
      /\ SameDefinition([half EXCEPT !.embedding = f], row)
  BY <1>1, <1>2 DEF Row, SameDefinition, f
<1>. QED BY <1>1, <1>3 DEF Refreshed, Embedded, f, half

-----------------------------------------------------------------------------
(* The commit of an analysis is the background analysis of the registry.   *)
LEMMA CommittedIsBackground ==
  ASSUME TypeInv, NEW r \in Request, JobOK(r), job[r].stage # "none",
         NEW status, NEW mine \in Row, NEW conflicts,
         SameDefinition(mine, job[r].seen),
         Committed(r, status, mine, conflicts)
  PROVE  BackgroundAnalysis(r)
<1>. DEFINE t == req[r].tool
<1>1. t \in Tool /\ tool[t] \in Row /\ req[r].op = "background"
  BY DEF JobOK, TypeInv, TypeOK, SessionsOK, SessionOK, Exists
<1>2. PICK h \in Hash \cup {None}, e \in Embedding \cup {None} :
        Flush(tool[t], job[r].seen, mine) = Embedded(tool[t], h, e)
  BY <1>1, FlushedEmbedding DEF JobOK
<1>3. tool' = [tool EXCEPT ![t] = Embedded(@, h, e)]
  BY <1>2 DEF Committed
<1>. QED BY <1>1, <1>3 DEF Committed, Ended, BackgroundAnalysis

(* Every step of the analysis is a step of the registry or changes none of *)
(* its variables.                                                          *)
LEMMA StepRefines ==
  ASSUME TypeInv, JobsOK, [AnalysisNext]_analysisVars
  PROVE  [Next]_vars
<1>1. CASE UNCHANGED analysisVars
  BY <1>1 DEF analysisVars, vars
<1>2. ASSUME NEW r \in Request, RegistryStep(r) PROVE [Next]_vars
  BY <1>2 DEF RegistryStep, Next
<1>3. ASSUME NEW r \in Request, AnalysisSkip(r) PROVE [Next]_vars
  <2>1. Abandon(r)
    BY <1>3 DEF AnalysisSkip, Abandon, At, Ended
  <2>. QED BY <2>1 DEF Next, Handler
<1>4. ASSUME NEW r \in Request,
             LoadCandidate(r) \/ LoadPeers(r) \/ Refresh(r) \/ Search(r)
      PROVE  [Next]_vars
  BY <1>4 DEF LoadCandidate, LoadPeers, Refresh, Search, vars
<1>5. ASSUME NEW r \in Request, Complete(r) PROVE BackgroundAnalysis(r)
  BY <1>5, CommittedIsBackground DEF Complete, At, JobsOK, JobOK
<1>6. ASSUME NEW r \in Request, EmbedFails(r) PROVE BackgroundAnalysis(r)
  <2>1. SameDefinition(job[r].seen, job[r].seen)
    BY DEF SameDefinition
  <2>. QED
    BY <1>6, <2>1, CommittedIsBackground DEF EmbedFails, At, JobsOK, JobOK
<1>7. ASSUME NEW r \in Request, UpsertFails(r) PROVE BackgroundAnalysis(r)
  <2>1. job[r].stage # "none" /\ JobOK(r) /\ job[r].seen \in Row
    BY <1>7 DEF UpsertFails, At, JobsOK, JobOK
  <2>. QED
    BY <1>7, <2>1, RefreshedRow, CommittedIsBackground DEF UpsertFails
<1>8. ASSUME NEW r \in Request, SearchFails(r) PROVE BackgroundAnalysis(r)
  BY <1>8, CommittedIsBackground DEF SearchFails, At, JobsOK, JobOK
<1>. QED
  BY <1>1, <1>2, <1>3, <1>4, <1>5, <1>6, <1>7, <1>8
  DEF AnalysisNext, AnalysisStep, Next

-----------------------------------------------------------------------------
(* A job that was just put aside, or whose stage moved on.                 *)
LEMMA JobMoves ==
  ASSUME JobsOK, NEW r \in Request, NEW j,
         job' = [job EXCEPT ![r] = j],
         \A q \in Request \ {r} : req'[q] = req[q],
         j.stage # "none" =>
           /\ req'[r].op = "background"
           /\ j.seen \in Row /\ j.mine \in Row
           /\ SameDefinition(j.mine, j.seen)
  PROVE  JobsOK'
BY DEF JobsOK, JobOK

(* Every step keeps the analyses on their own tool.                        *)
LEMMA NextJobsOK ==
  ASSUME TypeInv, JobsOK, [AnalysisNext]_analysisVars
  PROVE  JobsOK'
<1>. USE DEF JobAt
<1>0. NoJob.stage = "none"
  BY DEF NoJob
<1>1. CASE UNCHANGED analysisVars
  BY <1>1 DEF analysisVars, vars, JobsOK, JobOK
<1>2. ASSUME NEW r \in Request, RegistryStep(r) PROVE JobsOK'
  <2>1. \A q \in Request \ {r} : req'[q] = req[q]
    BY <1>2
    DEF RegistryStep, Handler, RegisterCheck, RegisterInsert, RegisterRefused,
        UpdateLoad, UpdateCommit, DeprecateLoad, DeprecateCommit, Abandon,
        TypeInv, TypeOK
  <2>. QED BY <1>0, <1>2, <2>1, JobMoves DEF RegistryStep
<1>3. ASSUME NEW r \in Request, Ended(r) PROVE JobsOK'
  <2>1. \A q \in Request \ {r} : req'[q] = req[q]
    BY <1>3 DEF Ended
  <2>. QED BY <1>0, <1>3, <2>1, JobMoves DEF Ended
<1>4. ASSUME NEW r \in Request, LoadCandidate(r) PROVE JobsOK'
  <2>1. tool[req[r].tool] \in Row
    BY <1>4 DEF LoadCandidate, At, TypeInv, TypeOK, SessionsOK, SessionOK, Exists
  <2>2. SameDefinition(tool[req[r].tool], tool[req[r].tool])
    BY DEF SameDefinition
  <2>. QED BY <1>4, <2>1, <2>2, JobMoves DEF LoadCandidate, At
<1>5. ASSUME NEW r \in Request, LoadPeers(r) PROVE JobsOK'
  BY <1>5, JobMoves DEF LoadPeers, At, JobsOK, JobOK
<1>6. ASSUME NEW r \in Request, Refresh(r) PROVE JobsOK'
  <2>1. /\ job[r].seen \in Row /\ job[r].mine \in Row
        /\ SameDefinition(job[r].mine, job[r].seen)
        /\ req' = req /\ req[r].op = "background"
    BY <1>6 DEF Refresh, At, JobsOK, JobOK
  <2>. QED BY <1>6, <2>1, RefreshedRow, JobMoves DEF Refresh, JobsOK
<1>7. ASSUME NEW r \in Request, Search(r) PROVE JobsOK'
  BY <1>7, JobMoves DEF Search, At, JobsOK, JobOK
<1>. QED
  BY <1>1, <1>2, <1>3, <1>4, <1>5, <1>6, <1>7
  DEF AnalysisNext, AnalysisStep, AnalysisSkip, Complete, EmbedFails,
      UpsertFails, SearchFails, Committed

-----------------------------------------------------------------------------
(* The invariants of the registry and of the analyses, together.           *)
LEMMA AnalysisInvariance == AnalysisSpec => [](IInv /\ JobsOK)
<1>1. AnalysisInit => IInv /\ JobsOK
  BY InitTypeInv
  DEF AnalysisInit, JobsOK, JobOK, NoJob, JobAt, Init, IInv, UniqueName,
      HistoryHasNoGap, DiffsGiveLiveDefinition, Exists
<1>2. (IInv /\ JobsOK) /\ [AnalysisNext]_analysisVars => (IInv /\ JobsOK)'
  <2>1. SUFFICES ASSUME IInv, JobsOK, [AnalysisNext]_analysisVars
                 PROVE  IInv' /\ JobsOK'
    OBVIOUS
  <2>2. [Next]_vars
    BY <2>1, StepRefines DEF IInv
  <2>. QED
    BY <2>1, <2>2, NextTypeInv, NextUniqueName, NextHistoryHasNoGap,
       NextDiffsGiveLiveDefinition, NextJobsOK
    DEF IInv
<1>. QED BY <1>1, <1>2, PTL DEF AnalysisSpec

(* The registry with its analysis implements the registry.                 *)
THEOREM AnalysisImplementsRegistry == AnalysisSpec => ImplementsRegistry
<1>1. AnalysisInit => Init
  BY DEF AnalysisInit
<1>2. IInv /\ JobsOK /\ [AnalysisNext]_analysisVars => [Next]_vars
  BY StepRefines DEF IInv
<1>. QED
  BY <1>1, <1>2, AnalysisInvariance, PTL
  DEF AnalysisSpec, Spec, ImplementsRegistry

(* What the registry promises survives the analyses that run beside it.    *)
THEOREM RegistryPromisesHold ==
  AnalysisSpec => /\ []UniqueName
                  /\ []HistoryHasNoGap
                  /\ []DiffsGiveLiveDefinition
                  /\ DeprecationIsFinal
BY AnalysisImplementsRegistry, NamesAreUnique, NoVersionIsSkipped, DiffsReplay,
   DeprecatedForGood, PTL
DEF ImplementsRegistry

-----------------------------------------------------------------------------
(* The embedding columns.  A hash is only ever stored beside an embedding, *)
(* because an embedding that was stored is never taken away: EmbeddingInv  *)
(* says what the sessions must remember for this to be inductive.          *)

SessionKeepsEmbedding(r) ==
  LET q == req[r]
  IN  /\ q.op = "register" => q.mine.hash = None
      /\ q.op \in {"update", "deprecate"} =>
           /\ q.mine.embedding = q.seen.embedding
           /\ q.mine.hash \in {None, q.seen.hash}

JobKeepsEmbedding(r) ==
  LET j == job[r]
  IN  j.stage # "none" =>
        /\ j.seen.hash # None => j.seen.embedding # None
        /\ j.seen.embedding # None => tool[req[r].tool].embedding # None
        /\ j.mine.hash # None => j.mine.embedding # None
        /\ j.mine.embedding = j.seen.embedding \/ j.mine.embedding # None

EmbeddingInv ==
  /\ HashedMeansEmbedded
  /\ \A r \in Request : SessionKeepsEmbedding(r) /\ JobKeepsEmbedding(r)

\* What a step may do to the embedding columns of the rows.
EmbeddingKept ==
  \A u \in Tool :
    (Exists(u) /\ tool[u].embedding # None) => tool'[u].embedding # None

(* The two columns of an UPDATE, one by one.                               *)
LEMMA FlushedColumns ==
  ASSUME NEW row, NEW seen, NEW mine
  PROVE  /\ Flush(row, seen, mine).hash = Col(row.hash, seen.hash, mine.hash)
         /\ Flush(row, seen, mine).embedding =
              Col(row.embedding, seen.embedding, mine.embedding)
BY DEF Flush

(* The handlers only ever clear the hash.                                  *)
LEMMA HandlerSessions ==
  ASSUME TypeInv, EmbeddingInv, NEW r \in Request, Handler(r)
  PROVE  \A q \in Request : SessionKeepsEmbedding(q)'
<1>. SUFFICES ASSUME NEW q \in Request PROVE SessionKeepsEmbedding(q)'
  OBVIOUS
<1>. USE DEF SessionKeepsEmbedding
<1>1. CASE q # r
  <2>1. req'[q] = req[q]
    BY <1>1
    DEF Handler, RegisterCheck, RegisterInsert, RegisterRefused, UpdateLoad,
        UpdateCommit, DeprecateLoad, DeprecateCommit, Abandon, TypeInv, TypeOK
  <2>. QED BY <2>1 DEF EmbeddingInv
<1>2. CASE q = r
  <2>1. CASE RegisterCheck(r)
    BY <1>2, <2>1 DEF RegisterCheck, NewRow, TypeInv, TypeOK
  <2>2. CASE UpdateLoad(r)
    BY <1>2, <2>2 DEF UpdateLoad, Revised, TypeInv, TypeOK
  <2>3. CASE DeprecateLoad(r)
    <3>1. \A row \in Row : /\ Deprecated(row).hash = row.hash
                           /\ Deprecated(row).embedding = row.embedding
      <4>1. ASSUME NEW row \in Row
            PROVE  /\ SoftDeleted(row) \in Row
                   /\ SoftDeleted(row).hash = row.hash
                   /\ SoftDeleted(row).embedding = row.embedding
        BY DEF SoftDeleted, Row
      <4>. QED BY <4>1 DEF Deprecated, Row
    <3>2. PICK t \in Tool :
            /\ Live(t)
            /\ req' = [req EXCEPT ![r] = [op |-> "deprecate", tool |-> t,
                                          seen |-> tool[t],
                                          mine |-> Deprecated(tool[t])]]
      BY <2>3 DEF DeprecateLoad
    <3>3. tool[t] \in Row
      BY <3>2 DEF Live, Exists, TypeInv, TypeOK
    <3>. QED BY <1>2, <3>1, <3>2, <3>3 DEF TypeInv, TypeOK
  <2>4. CASE \/ RegisterInsert(r) \/ RegisterRefused(r) \/ UpdateCommit(r)
             \/ DeprecateCommit(r) \/ Abandon(r)
    <3>1. req'[r].op \in {"idle", "background"}
      BY <2>4
      DEF RegisterInsert, RegisterRefused, UpdateCommit, DeprecateCommit,
          Abandon, Idle, Background, TypeInv, TypeOK
    <3>. QED BY <1>2, <3>1
  <2>. QED BY <2>1, <2>2, <2>3, <2>4 DEF Handler
<1>. QED BY <1>1, <1>2

(* A handler never takes an embedding away.                                *)
LEMMA HandlerRowsKeepEmbedding ==
  ASSUME TypeInv, EmbeddingInv, NEW r \in Request, Handler(r)
  PROVE  HashedMeansEmbedded' /\ EmbeddingKept
<1>. USE DEF HashedMeansEmbedded, EmbeddingKept, Exists
<1>1. CASE UNCHANGED tool
  BY <1>1 DEF EmbeddingInv
<1>2. CASE RegisterInsert(r)
  <2>1. PICK t \in Tool : ~Exists(t) /\ tool' = [tool EXCEPT ![t] = req[r].mine]
    BY <1>2 DEF RegisterInsert
  <2>2. req[r].mine.hash = None
    BY <1>2 DEF RegisterInsert, EmbeddingInv, SessionKeepsEmbedding
  <2>. QED BY <2>1, <2>2 DEF EmbeddingInv, TypeInv, TypeOK
<1>3. CASE UpdateCommit(r) \/ DeprecateCommit(r)
  <2>. DEFINE t == req[r].tool
              new == Flush(tool[t], req[r].seen, req[r].mine)
  <2>1. /\ t \in Tool /\ tool[t] # NoRow
        /\ req[r].op \in {"update", "deprecate"}
    BY <1>3
    DEF UpdateCommit, DeprecateCommit, TypeInv, SessionsOK, SessionOK
  <2>2. /\ new.embedding = tool[t].embedding
        /\ new.hash \in {None, tool[t].hash}
    BY <2>1, FlushedColumns DEF EmbeddingInv, SessionKeepsEmbedding, Col
  <2>3. tool' = [tool EXCEPT ![t] = new]
    BY <1>3 DEF UpdateCommit, DeprecateCommit
  <2>. HIDE DEF new
  <2>. QED BY <2>1, <2>2, <2>3 DEF EmbeddingInv, TypeInv, TypeOK
<1>. QED
  BY <1>1, <1>2, <1>3
  DEF Handler, RegisterCheck, RegisterRefused, UpdateLoad, DeprecateLoad, Abandon

(* The commit of an analysis stores a hash with its embedding.             *)
LEMMA CommittedKeepsEmbedding ==
  ASSUME TypeInv, EmbeddingInv, NEW r \in Request, JobOK(r),
         job[r].stage # "none",
         NEW status, NEW mine \in Row, NEW conflicts,
         mine.hash # None => mine.embedding # None,
         mine.embedding = job[r].seen.embedding \/ mine.embedding # None,
         Committed(r, status, mine, conflicts)
  PROVE  HashedMeansEmbedded' /\ EmbeddingKept
<1>. USE DEF HashedMeansEmbedded, EmbeddingKept, Exists
<1>. DEFINE t == req[r].tool
            new == Flush(tool[t], job[r].seen, mine)
<1>1. t \in Tool /\ tool[t] # NoRow
  BY DEF JobOK, TypeInv, SessionsOK, SessionOK
<1>2. /\ job[r].seen.embedding # None => tool[t].embedding # None
      /\ tool[t].hash # None => tool[t].embedding # None
  BY <1>1 DEF EmbeddingInv, JobKeepsEmbedding
<1>3. /\ new.hash # None => new.embedding # None
      /\ tool[t].embedding # None => new.embedding # None
  BY <1>2, FlushedColumns DEF Col
<1>4. tool' = [tool EXCEPT ![t] = new]
  BY DEF Committed
<1>. HIDE DEF new
<1>. QED BY <1>1, <1>3, <1>4 DEF EmbeddingInv, TypeInv, TypeOK

(* The jobs and sessions remember what they must when one request moves.   *)
LEMMA EmbeddingMoves ==
  ASSUME TypeInv, JobsOK, EmbeddingInv, NEW r \in Request, NEW j,
         job' = [job EXCEPT ![r] = j],
         \A q \in Request \ {r} : req'[q] = req[q],
         HashedMeansEmbedded', EmbeddingKept,
         \A q \in Request : SessionKeepsEmbedding(q)',
         j.stage # "none" =>
           /\ j.seen.hash # None => j.seen.embedding # None
           /\ j.seen.embedding # None => tool'[req'[r].tool].embedding # None
           /\ j.mine.hash # None => j.mine.embedding # None
           /\ j.mine.embedding = j.seen.embedding \/ j.mine.embedding # None
  PROVE  EmbeddingInv'
<1>1. ASSUME NEW q \in Request PROVE JobKeepsEmbedding(q)'
  <2>1. CASE q = r
    <3>1. job'[q] = j
      BY <2>1 DEF JobsOK
    <3>. QED BY <2>1, <3>1 DEF JobKeepsEmbedding
  <2>2. CASE q # r
    <3>1. job'[q] = job[q] /\ req'[q] = req[q]
      BY <2>2
    <3>2. job[q].stage # "none" => req[q].tool \in Tool /\ Exists(req[q].tool)
      BY DEF JobsOK, JobOK, TypeInv, SessionsOK, SessionOK
    <3>. QED BY <3>1, <3>2 DEF JobKeepsEmbedding, EmbeddingInv, EmbeddingKept
  <2>. QED BY <2>1, <2>2
<1>. QED BY <1>1 DEF EmbeddingInv

(* Every step keeps the embedding invariant.                               *)
LEMMA NextEmbeddingInv ==
  ASSUME TypeInv, JobsOK, EmbeddingInv, [AnalysisNext]_analysisVars
  PROVE  EmbeddingInv'
<1>. USE DEF JobAt
<1>0. NoJob.stage = "none"
  BY DEF NoJob
<1>1. CASE UNCHANGED analysisVars
  BY <1>1
  DEF analysisVars, vars, EmbeddingInv, HashedMeansEmbedded, Exists,
      SessionKeepsEmbedding, JobKeepsEmbedding
<1>2. ASSUME NEW r \in Request, RegistryStep(r) PROVE EmbeddingInv'
  <2>1. \A q \in Request \ {r} : req'[q] = req[q]
    BY <1>2
    DEF RegistryStep, Handler, RegisterCheck, RegisterInsert, RegisterRefused,
        UpdateLoad, UpdateCommit, DeprecateLoad, DeprecateCommit, Abandon,
        TypeInv, TypeOK
  <2>. QED
    BY <1>0, <1>2, <2>1, HandlerSessions, HandlerRowsKeepEmbedding,
       EmbeddingMoves
    DEF RegistryStep
<1>3. ASSUME NEW r \in Request, Ended(r), HashedMeansEmbedded', EmbeddingKept
      PROVE  EmbeddingInv'
  <2>1. /\ \A q \in Request \ {r} : req'[q] = req[q]
        /\ req'[r].op = "idle"
    BY <1>3 DEF Ended, Idle, TypeInv, TypeOK
  <2>2. \A q \in Request : SessionKeepsEmbedding(q)'
    BY <2>1 DEF EmbeddingInv, SessionKeepsEmbedding
  <2>. QED BY <1>0, <1>3, <2>1, <2>2, EmbeddingMoves DEF Ended
<1>4. ASSUME NEW r \in Request, UNCHANGED <<tool, req>>, NEW j,
             job' = [job EXCEPT ![r] = j],
             j.stage # "none" =>
               /\ j.seen.hash # None => j.seen.embedding # None
               /\ j.seen.embedding # None => tool[req[r].tool].embedding # None
               /\ j.mine.hash # None => j.mine.embedding # None
               /\ j.mine.embedding = j.seen.embedding \/ j.mine.embedding # None
      PROVE  EmbeddingInv'
  <2>1. HashedMeansEmbedded' /\ EmbeddingKept
    BY <1>4 DEF EmbeddingInv, HashedMeansEmbedded, EmbeddingKept, Exists
  <2>2. \A q \in Request : SessionKeepsEmbedding(q)'
    BY <1>4 DEF EmbeddingInv, SessionKeepsEmbedding
  <2>. QED BY <1>4, <2>1, <2>2, EmbeddingMoves
<1>5. ASSUME NEW r \in Request, LoadCandidate(r) PROVE EmbeddingInv'
  <2>1. req[r].tool \in Tool /\ Exists(req[r].tool)
    BY <1>5 DEF LoadCandidate, At, TypeInv, SessionsOK, SessionOK
  <2>2. tool[req[r].tool].hash # None => tool[req[r].tool].embedding # None
    BY <2>1 DEF EmbeddingInv, HashedMeansEmbedded
  <2>. QED BY <1>4, <1>5, <2>2 DEF LoadCandidate
<1>6. ASSUME NEW r \in Request, LoadPeers(r) PROVE EmbeddingInv'
  BY <1>4, <1>6 DEF LoadPeers, At, EmbeddingInv, JobKeepsEmbedding
<1>7. ASSUME NEW r \in Request, Refresh(r) PROVE EmbeddingInv'
  <2>1. /\ job[r].seen \in Row
        /\ JobKeepsEmbedding(r) /\ job[r].stage # "none"
        /\ UNCHANGED <<tool, req>>
    BY <1>7 DEF Refresh, At, JobsOK, JobOK, EmbeddingInv
  <2>2. Refreshed(job[r].seen).embedding # None
    BY <2>1, RefreshedRow, RegistryAssumption
  <2>. QED BY <1>4, <1>7, <2>1, <2>2 DEF Refresh, JobKeepsEmbedding
<1>8. ASSUME NEW r \in Request, Search(r) PROVE EmbeddingInv'
  BY <1>4, <1>8 DEF Search, At, EmbeddingInv, JobKeepsEmbedding
<1>9. ASSUME NEW r \in Request, AnalysisSkip(r) PROVE EmbeddingInv'
  <2>1. HashedMeansEmbedded' /\ EmbeddingKept
    BY <1>9
    DEF AnalysisSkip, EmbeddingInv, HashedMeansEmbedded, EmbeddingKept, Exists
  <2>. QED BY <1>3, <1>9, <2>1 DEF AnalysisSkip
<1>10. ASSUME NEW r \in Request,
              Complete(r) \/ EmbedFails(r) \/ UpsertFails(r) \/ SearchFails(r)
       PROVE  EmbeddingInv'
  <2>1. /\ job[r].stage # "none" /\ JobOK(r) /\ JobKeepsEmbedding(r)
        /\ job[r].seen \in Row /\ job[r].mine \in Row
    BY <1>10
    DEF Complete, EmbedFails, UpsertFails, SearchFails, At, JobsOK, JobOK,
        EmbeddingInv
  <2>2. CASE \E status, conflicts : Committed(r, status, job[r].mine, conflicts)
    <3>1. HashedMeansEmbedded' /\ EmbeddingKept
      BY <2>1, <2>2, CommittedKeepsEmbedding DEF JobKeepsEmbedding
    <3>. QED BY <1>3, <2>2, <3>1 DEF Committed
  <2>3. CASE EmbedFails(r)
    <3>1. job[r].seen.hash # None => job[r].seen.embedding # None
      BY <2>1 DEF JobKeepsEmbedding
    <3>. QED BY <1>3, <2>1, <2>3, <3>1, CommittedKeepsEmbedding
         DEF EmbedFails, Committed
  <2>4. CASE UpsertFails(r)
    <3>1. /\ Refreshed(job[r].seen) \in Row
          /\ Refreshed(job[r].seen).embedding # None
      BY <2>1, RefreshedRow, RegistryAssumption
    <3>2. HashedMeansEmbedded' /\ EmbeddingKept
      BY <2>1, <2>4, <3>1, CommittedKeepsEmbedding DEF UpsertFails
    <3>. QED BY <1>3, <2>4, <3>2 DEF UpsertFails, Committed
  <2>. QED BY <1>10, <2>2, <2>3, <2>4 DEF Complete, SearchFails
<1>. QED
  BY <1>1, <1>2, <1>5, <1>6, <1>7, <1>8, <1>9, <1>10
  DEF AnalysisNext, AnalysisStep

(* A stored hash always comes with a stored embedding, however analyses,   *)
(* their failures and the updates that clear the hash interleave.          *)
THEOREM HashNeverWithoutEmbedding == AnalysisSpec => []HashedMeansEmbedded
<1>1. AnalysisInit => EmbeddingInv
  BY
  DEF AnalysisInit, Init, EmbeddingInv, HashedMeansEmbedded, Exists, Idle,
      SessionKeepsEmbedding, JobKeepsEmbedding, NoJob, JobAt
<1>2. (IInv /\ JobsOK) /\ EmbeddingInv /\ [AnalysisNext]_analysisVars
        => EmbeddingInv'
  BY NextEmbeddingInv DEF IInv
<1>3. EmbeddingInv => HashedMeansEmbedded
  BY DEF EmbeddingInv
<1>. QED BY <1>1, <1>2, <1>3, AnalysisInvariance, PTL DEF AnalysisSpec

-----------------------------------------------------------------------------
(* The types of the analysis.  What the search returns is a document whose *)
(* row has a name: a document is only written for a tool that exists, and  *)
(* no row is ever removed.                                                 *)
IndexedExists == \A u \in Tool : index[u] # None => Exists(u)

(* Rows stay, whatever step is taken.                                      *)
LEMMA RowsStay ==
  ASSUME TypeInv, [Next]_vars
  PROVE  \A u \in Tool : Exists(u) => Exists(u)'
<1>1. CASE Kept
  BY <1>1 DEF Kept
<1>2. ASSUME NEW t \in Tool, Inserted(t)
      PROVE  \A u \in Tool : Exists(u) => Exists(u)'
  BY <1>2 DEF Inserted, Exists, TypeInv, TypeOK
<1>3. ASSUME NEW t \in Tool, Updated(t)
      PROVE  \A u \in Tool : Exists(u) => Exists(u)'
  <2>1. PICK seen \in Row, mine \in Row :
          /\ Exists(t)
          /\ mine.is_deleted = seen.is_deleted
          /\ tool' = [tool EXCEPT ![t] = Flush(tool[t], seen, mine)]
    BY <1>3 DEF Updated
  <2>2. tool'[t] \in Row
    BY <2>1, UpdatedRow
  <2>3. \A u \in Tool : u # t => tool'[u] = tool[u]
    BY <2>1 DEF TypeInv, TypeOK
  <2>. QED BY <2>2, <2>3, NoRowAssumption DEF Exists
<1>. QED BY <1>1, <1>2, <1>3, StepKinds

(* What stages 1 and 2 find has the type of a finding.                     *)
LEMMA StaticType ==
  ASSUME NEW row \in Row, NEW others \in SUBSET Row
  PROVE  Static(row, others) \subseteq Finding
<1>1. \A o \in Row : NameOf[o.key] \in Name /\ o.input_schema \in Schema
  BY DEF Name, Row
<1>2. \A o \in Row :
        /\ FindingOf("exact_name", NameOf[o.key], <<>>) \in Finding
        /\ FindingOf("overlap", NameOf[o.key], <<row.input_schema, o.input_schema>>)
             \in Finding
  BY <1>1 DEF FindingOf, Finding
<1>. QED BY <1>2 DEF Static

(* A job made from its parts.                                              *)
LEMMA JobAtType ==
  ASSUME NEW stage \in Stage, NEW seen \in Row \cup {NoRow}, NEW mine \in Row \cup {NoRow},
         NEW peers \in SUBSET Tool, NEW found \in SUBSET Finding
  PROVE  JobAt(stage, seen, mine, peers, found) \in Job
BY DEF JobAt, Job

(* One job moves on and the rest has its types.                            *)
LEMMA TypesMove ==
  ASSUME AnalysisTypeOK, TypeOK', NEW r \in Request, NEW j \in Job,
         job' = [job EXCEPT ![r] = j],
         index' \in [Tool -> Embedding \cup {None}],
         runs' \subseteq AnalysisRun, lost' \subseteq Tool
  PROVE  AnalysisTypeOK'
BY DEF AnalysisTypeOK

(* The commit of an analysis adds a run.                                   *)
LEMMA CommittedTypes ==
  ASSUME AnalysisTypeOK, TypeOK', NEW r \in Request, req[r].tool \in Tool,
         NEW status \in {"completed", "failed"}, NEW mine,
         NEW conflicts \in SUBSET Conflict,
         Committed(r, status, mine, conflicts),
         index' \in [Tool -> Embedding \cup {None}], lost' = lost
  PROVE  AnalysisTypeOK'
<1>1. NoJob \in Job
  BY JobAtType DEF NoJob, Stage
<1>2. [tool |-> req[r].tool, status |-> status, conflicts |-> conflicts] \in AnalysisRun
  BY DEF AnalysisRun
<1>3. runs' \subseteq AnalysisRun
  BY <1>2 DEF Committed, AnalysisTypeOK
<1>. QED BY <1>1, <1>3, TypesMove DEF Committed, Ended, AnalysisTypeOK

(* Every step keeps the types.                                             *)
LEMMA NextAnalysisTypes ==
  ASSUME IInv, JobsOK, AnalysisTypeOK, IndexedExists, TypeOK',
         [AnalysisNext]_analysisVars
  PROVE  AnalysisTypeOK'
<1>0. NoJob \in Job
  BY JobAtType DEF NoJob, Stage
<1>1. ASSUME NEW r \in Request, req[r].op = "background"
      PROVE  req[r].tool \in Tool /\ Exists(req[r].tool)
  BY <1>1 DEF IInv, TypeInv, SessionsOK, SessionOK
<1>2. ASSUME NEW r \in Request, job[r].stage # "none"
      PROVE  /\ req[r].op = "background"
             /\ job[r].seen \in Row /\ job[r].mine \in Row
             /\ job[r].peers \in SUBSET Tool /\ job[r].found \in SUBSET Finding
  BY <1>2 DEF JobsOK, JobOK, AnalysisTypeOK, Job
<1>3. CASE UNCHANGED analysisVars
  BY <1>3 DEF analysisVars, AnalysisTypeOK
<1>4. ASSUME NEW r \in Request, RegistryStep(r) PROVE AnalysisTypeOK'
  <2>1. lost' \subseteq Tool
    BY <1>1, <1>4 DEF RegistryStep, AnalysisTypeOK
  <2>. QED BY <1>0, <1>4, <2>1, TypesMove DEF RegistryStep, AnalysisTypeOK
<1>5. ASSUME NEW r \in Request, AnalysisSkip(r) PROVE AnalysisTypeOK'
  BY <1>0, <1>5, TypesMove DEF AnalysisSkip, Ended, AnalysisTypeOK
<1>6. ASSUME NEW r \in Request, LoadCandidate(r) PROVE AnalysisTypeOK'
  <2>1. tool[req[r].tool] \in Row
    BY <1>1, <1>6 DEF LoadCandidate, At, Exists, IInv, TypeInv, TypeOK
  <2>2. JobAt("candidate", tool[req[r].tool], tool[req[r].tool], {}, {}) \in Job
    BY <2>1, JobAtType DEF Stage
  <2>. QED BY <1>6, <2>2, TypesMove DEF LoadCandidate, AnalysisTypeOK
<1>7. ASSUME NEW r \in Request, LoadPeers(r) PROVE AnalysisTypeOK'
  <2>1. PICK peers, found :
          /\ peers = Peers(req[r].tool)
          /\ found = Static(job[r].seen, {tool[u] : u \in peers})
    OBVIOUS
  <2>2. peers \in SUBSET Tool /\ {tool[u] : u \in peers} \in SUBSET Row
    BY <2>1 DEF Peers, Active, Live, Exists, IInv, TypeInv, TypeOK
  <2>3. found \in SUBSET Finding
    BY <1>2, <1>7, <2>1, <2>2, StaticType DEF LoadPeers, At
  <2>4. JobAt("loaded", job[r].seen, job[r].mine, peers, found) \in Job
    BY <1>2, <1>7, <2>2, <2>3, JobAtType DEF LoadPeers, At, Stage
  <2>5. job' = [job EXCEPT ![r] = JobAt("loaded", job[r].seen, job[r].mine, peers, found)]
    BY <1>7, <2>1 DEF LoadPeers
  <2>. QED BY <1>7, <2>4, <2>5, TypesMove DEF LoadPeers, AnalysisTypeOK
<1>8. ASSUME NEW r \in Request, Refresh(r) PROVE AnalysisTypeOK'
  <2>1. /\ job[r].seen \in Row /\ job[r].mine \in Row
        /\ job[r].peers \in SUBSET Tool /\ job[r].found \in SUBSET Finding
        /\ req[r].tool \in Tool
    BY <1>1, <1>2, <1>8 DEF Refresh, At
  <2>2. PICK mine \in {job[r].mine, Refreshed(job[r].seen)} :
          job' = [job EXCEPT ![r] =
                    JobAt("embedded", job[r].seen, mine, job[r].peers, job[r].found)]
    BY <1>8 DEF Refresh
  <2>3. JobAt("embedded", job[r].seen, mine, job[r].peers, job[r].found) \in Job
    BY <2>1, <2>2, RefreshedRow, JobAtType DEF Stage
  <2>4. index' \in [Tool -> Embedding \cup {None}] /\ lost' \subseteq Tool
    BY <1>8, <2>1, RefreshedRow DEF Refresh, AnalysisTypeOK
  <2>. QED BY <1>8, <2>2, <2>3, <2>4, TypesMove DEF Refresh, AnalysisTypeOK
<1>9. ASSUME NEW r \in Request, Search(r) PROVE AnalysisTypeOK'
  <2>1. /\ job[r].seen \in Row /\ job[r].mine \in Row
        /\ job[r].peers \in SUBSET Tool /\ job[r].found \in SUBSET Finding
    BY <1>2, <1>9 DEF Search, At
  <2>2. PICK hits, found :
          /\ hits \subseteq Hits(req[r].tool, job[r].seen)
          /\ found = job[r].found \cup
               {FindingOf("semantic", NameOf[tool[u].key], <<>>) : u \in hits}
          /\ job' = [job EXCEPT ![r] =
               JobAt("searched", job[r].seen, job[r].mine, job[r].peers, found)]
    BY <1>9 DEF Search
  <2>3. \A u \in hits : FindingOf("semantic", NameOf[tool[u].key], <<>>) \in Finding
    <3>1. \A u \in hits : tool[u] \in Row
      BY <2>2 DEF Hits, IndexedExists, Exists, IInv, TypeInv, TypeOK
    <3>2. \A row \in Row : NameOf[row.key] \in Name
      BY DEF Row, Name
    <3>. QED BY <3>1, <3>2 DEF FindingOf, Finding
  <2>4. found \in SUBSET Finding
    BY <2>1, <2>2, <2>3
  <2>5. JobAt("searched", job[r].seen, job[r].mine, job[r].peers, found) \in Job
    BY <2>1, <2>4, JobAtType DEF Stage
  <2>. QED BY <1>9, <2>2, <2>5, TypesMove DEF Search, AnalysisTypeOK
<1>10. ASSUME NEW r \in Request, Complete(r) PROVE AnalysisTypeOK'
  <2>1. /\ job[r].found \in SUBSET Finding /\ job[r].peers \in SUBSET Tool
        /\ req[r].tool \in Tool
    BY <1>1, <1>2, <1>10 DEF Complete, At
  <2>2. PICK first, conflicts :
          /\ first \in Firsts(job[r].peers)
          /\ conflicts = {Recorded(req[r].tool, f, first) : f \in job[r].found}
          /\ Committed(r, "completed", job[r].mine, conflicts)
    BY <1>10 DEF Complete
  <2>3. ASSUME NEW f \in Finding
        PROVE  Recorded(req[r].tool, f, first) \in Conflict
    <3>1. f.name \in Name
      BY DEF Finding
    <3>2. first[f.name] \in Tool \cup {NoTool}
      BY <2>1, <2>2, <3>1 DEF Firsts
    <3>. QED BY <2>1, <3>2 DEF Recorded, Conflict
  <2>4. conflicts \in SUBSET Conflict
    BY <2>1, <2>2, <2>3
  <2>. QED BY <1>10, <2>1, <2>2, <2>4, CommittedTypes DEF Complete, AnalysisTypeOK
<1>11. ASSUME NEW r \in Request, EmbedFails(r) \/ SearchFails(r) PROVE AnalysisTypeOK'
  <2>1. req[r].tool \in Tool
    BY <1>1, <1>11 DEF EmbedFails, SearchFails, At
  <2>2. PICK mine : Committed(r, "failed", mine, {})
    BY <1>11 DEF EmbedFails, SearchFails
  <2>. QED BY <1>11, <2>1, <2>2, CommittedTypes DEF EmbedFails, SearchFails, AnalysisTypeOK
<1>12. ASSUME NEW r \in Request, UpsertFails(r) PROVE AnalysisTypeOK'
  <2>1. req[r].tool \in Tool /\ job[r].seen \in Row
    BY <1>1, <1>2, <1>12 DEF UpsertFails, At
  <2>2. index' \in [Tool -> Embedding \cup {None}]
    BY <1>12, <2>1, RefreshedRow DEF UpsertFails, AnalysisTypeOK
  <2>3. Committed(r, "failed", Refreshed(job[r].seen), {}) /\ lost' = lost
    BY <1>12 DEF UpsertFails
  <2>. QED BY <2>1, <2>2, <2>3, CommittedTypes
<1>. QED
  BY <1>3, <1>4, <1>5, <1>6, <1>7, <1>8, <1>9, <1>10, <1>11, <1>12
  DEF AnalysisNext, AnalysisStep

(* A document belongs to a tool that exists.                               *)
LEMMA NextIndexedExists ==
  ASSUME IInv, JobsOK, AnalysisTypeOK, IndexedExists, [AnalysisNext]_analysisVars
  PROVE  IndexedExists'
<1>1. \A u \in Tool : Exists(u) => Exists(u)'
  BY StepRefines, RowsStay DEF IInv
<1>2. CASE index' = index
  BY <1>1, <1>2 DEF IndexedExists
<1>3. ASSUME NEW r \in Request, Refresh(r) \/ UpsertFails(r) PROVE IndexedExists'
  <2>1. req[r].tool \in Tool /\ Exists(req[r].tool)
    BY <1>3 DEF Refresh, UpsertFails, At, IInv, TypeInv, SessionsOK, SessionOK
  <2>2. \A u \in Tool : u # req[r].tool => index'[u] = index[u]
    BY <1>3 DEF Refresh, UpsertFails, AnalysisTypeOK
  <2>. QED BY <1>1, <2>1, <2>2 DEF IndexedExists
<1>. QED
  BY <1>2, <1>3
  DEF AnalysisNext, AnalysisStep, RegistryStep, AnalysisSkip, LoadCandidate,
      LoadPeers, Search, Complete, EmbedFails, SearchFails, analysisVars

(* The analysis and its tables keep their types, for any tools, requests   *)
(* and relations of names and definitions.                                 *)
THEOREM AnalysisTypeCorrect == AnalysisSpec => []AnalysisTypeOK
<1>1. AnalysisInit => AnalysisTypeOK /\ IndexedExists
  <2>1. NoJob \in Job
    BY JobAtType DEF NoJob, Stage
  <2>. QED
    BY <2>1, InitTypeInv DEF AnalysisInit, AnalysisTypeOK, IndexedExists, TypeInv
<1>2. /\ IInv /\ JobsOK /\ (IInv /\ JobsOK)'
      /\ AnalysisTypeOK /\ IndexedExists /\ [AnalysisNext]_analysisVars
      => (AnalysisTypeOK /\ IndexedExists)'
  BY NextAnalysisTypes, NextIndexedExists DEF IInv, TypeInv
<1>. QED BY <1>1, <1>2, AnalysisInvariance, PTL DEF AnalysisSpec

-----------------------------------------------------------------------------
(***************************************************************************)
(* No conflict between two active tools is missed by the analyses of both. *)
(* The argument follows the last commit that touched the definition of one *)
(* of the two: the analysis that this commit leaves to the background      *)
(* accounts for the pair at every stage of its work (Covers), until its    *)
(* run is recorded.                                                        *)
(***************************************************************************)

\* The analysis of request r will report t against u as both are now.
Covers(r, t, u) ==
  LET j == job[r]
  IN  /\ req[r].op = "background"
      /\ req[r].tool = t
      /\ j.stage = "candidate" => SameDefinition(j.seen, tool[t])
      /\ j.stage \notin {"none", "candidate"} =>
           Static(tool[t], {tool[u]}) \subseteq j.found

Accounted(t, u) ==
  \/ ReportedBy(t, u)
  \/ Failed(t)
  \/ t \in lost
  \/ \E r \in Request : Covers(r, t, u)

CoverInv ==
  \A t, u \in Tool :
    (t # u /\ Collide(t, u)) => Accounted(t, u) \/ Accounted(u, t)

\* A step leaves the definition of t alone.
Unmoved(t) == (Exists(t)' <=> Exists(t)) /\ SameDefinition(tool'[t], tool[t])

\* What a step of request r leaves alone.
OthersKept(r) ==
  /\ \A q \in Request \ {r} : job'[q] = job[q] /\ req'[q] = req[q]
  /\ runs \subseteq runs'
  /\ lost \subseteq lost'

-----------------------------------------------------------------------------
(* The findings of stages 1 and 2 about one other tool.                    *)
LEMMA StaticOfOne ==
  ASSUME NEW a, NEW b, NEW f
  PROVE  f \in Static(a, {b}) <=>
           \/ /\ SameName(a, b)
              /\ f = FindingOf("exact_name", NameOf[b.key], <<>>)
           \/ /\ <<DefinitionOf(a), DefinitionOf(b)>> \in Overlap
              /\ f = FindingOf("overlap", NameOf[b.key],
                               <<a.input_schema, b.input_schema>>)
BY DEF Static

(* They are among the findings about a set of tools it belongs to.         *)
LEMMA StaticGrows ==
  ASSUME NEW a, NEW others, NEW b \in others
  PROVE  Static(a, {b}) \subseteq Static(a, others)
BY DEF Static

(* They depend on the definitions only.                                    *)
LEMMA StaticSame ==
  ASSUME NEW a, NEW b, NEW c, NEW d, SameDefinition(c, a), SameDefinition(d, b)
  PROVE  Static(c, {d}) = Static(a, {b})
<1>1. /\ c.key = a.key /\ d.key = b.key
      /\ c.input_schema = a.input_schema /\ d.input_schema = b.input_schema
  BY DEF SameDefinition
<1>2. /\ SameName(c, d) <=> SameName(a, b)
      /\ DefinitionOf(c) = DefinitionOf(a) /\ DefinitionOf(d) = DefinitionOf(b)
  BY <1>1 DEF SameName, DefinitionOf
<1>3. /\ FindingOf("exact_name", NameOf[d.key], <<>>) =
           FindingOf("exact_name", NameOf[b.key], <<>>)
      /\ FindingOf("overlap", NameOf[d.key], <<c.input_schema, d.input_schema>>) =
           FindingOf("overlap", NameOf[b.key], <<a.input_schema, b.input_schema>>)
  BY <1>1 DEF FindingOf
<1>4. ASSUME NEW f PROVE f \in Static(c, {d}) <=> f \in Static(a, {b})
  <2>1. f \in Static(c, {d}) <=>
           \/ /\ SameName(c, d)
              /\ f = FindingOf("exact_name", NameOf[d.key], <<>>)
           \/ /\ <<DefinitionOf(c), DefinitionOf(d)>> \in Overlap
              /\ f = FindingOf("overlap", NameOf[d.key],
                               <<c.input_schema, d.input_schema>>)
    BY StaticOfOne
  <2>2. f \in Static(a, {b}) <=>
           \/ /\ SameName(a, b)
              /\ f = FindingOf("exact_name", NameOf[b.key], <<>>)
           \/ /\ <<DefinitionOf(a), DefinitionOf(b)>> \in Overlap
              /\ f = FindingOf("overlap", NameOf[b.key],
                               <<a.input_schema, b.input_schema>>)
    BY StaticOfOne
  <2>. QED BY <1>2, <1>3, <2>1, <2>2
<1>. QED BY <1>4 DEF Static

(* A pair that collides after a step which left both definitions alone     *)
(* collided before it.                                                     *)
LEMMA CollideKept ==
  ASSUME NEW t \in Tool, NEW u \in Tool, Unmoved(t), Unmoved(u), Collide(t, u)'
  PROVE  Collide(t, u)
<1>1. Static(tool'[t], {tool'[u]}) = Static(tool[t], {tool[u]})
  BY StaticSame DEF Unmoved
<1>2. \A v \in {t, u} : /\ Active(v)' => Active(v)
                        /\ tool'[v].key = tool[v].key
  BY DEF Unmoved, Active, Live, SameDefinition
<1>. QED BY <1>1, <1>2 DEF Collide

(* What accounts for a pair still does after a step that left both         *)
(* definitions alone, if the request that moved sees to its own part.      *)
LEMMA AccountedKept ==
  ASSUME NEW t \in Tool, NEW u \in Tool, Unmoved(t), Unmoved(u),
         NEW r \in Request, OthersKept(r), Accounted(t, u),
         Covers(r, t, u) => Accounted(t, u)'
  PROVE  Accounted(t, u)'
<1>1. Static(tool'[t], {tool'[u]}) = Static(tool[t], {tool[u]})
  BY StaticSame DEF Unmoved
<1>2. CASE ReportedBy(t, u)
  BY <1>1, <1>2 DEF ReportedBy, Accounted, OthersKept
<1>3. CASE Failed(t) \/ t \in lost
  BY <1>3 DEF Failed, Accounted, OthersKept
<1>4. ASSUME NEW q \in Request, q # r, Covers(q, t, u) PROVE Covers(q, t, u)'
  <2>1. job'[q] = job[q] /\ req'[q] = req[q]
    BY <1>4 DEF OthersKept
  <2>2. SameDefinition(job[q].seen, tool[t]) =>
          SameDefinition(job[q].seen, tool'[t])
    BY DEF Unmoved, SameDefinition
  <2>. QED BY <1>1, <1>4, <2>1, <2>2 DEF Covers
<1>. QED BY <1>2, <1>3, <1>4 DEF Accounted

-----------------------------------------------------------------------------
(* A step that leaves every definition alone.                              *)
LEMMA QuietMove ==
  ASSUME CoverInv, NEW r \in Request, OthersKept(r),
         \A t \in Tool : Unmoved(t),
         \A t, u \in Tool :
           (/\ t # u
            /\ Collide(t, u) \/ Collide(u, t)
            /\ Covers(r, t, u)) => Accounted(t, u)'
  PROVE  CoverInv'
<1>1. SUFFICES ASSUME NEW t \in Tool, NEW u \in Tool, t # u, Collide(t, u)'
               PROVE  Accounted(t, u)' \/ Accounted(u, t)'
  BY DEF CoverInv
<1>2. Collide(t, u)
  BY <1>1, CollideKept
<1>3. CASE Accounted(t, u)
  BY <1>1, <1>2, <1>3, AccountedKept
<1>4. CASE Accounted(u, t) /\ ~Covers(r, u, t)
  BY <1>4, AccountedKept
<1>5. CASE Covers(r, u, t)
  BY <1>1, <1>2, <1>5
<1>. QED BY <1>1, <1>2, <1>3, <1>4, <1>5 DEF CoverInv

(* A step of a handler that changes the definition of s: it leaves s to    *)
(* an analysis that has not read anything yet, or s is not active.         *)
LEMMA DefinitionMove ==
  ASSUME CoverInv, NEW r \in Request, OthersKept(r), NEW s \in Tool,
         \A v \in Tool \ {s} : Unmoved(v),
         req[r].op # "background",
         \/ ~Active(s)'
         \/ /\ req'[r].op = "background" /\ req'[r].tool = s
            /\ job'[r].stage = "none"
  PROVE  CoverInv'
<1>1. SUFFICES ASSUME NEW t \in Tool, NEW u \in Tool, t # u, Collide(t, u)'
               PROVE  Accounted(t, u)' \/ Accounted(u, t)'
  BY DEF CoverInv
<1>2. CASE s \in {t, u}
  <2>1. /\ req'[r].op = "background" /\ req'[r].tool = s
        /\ job'[r].stage = "none"
    BY <1>1, <1>2 DEF Collide
  <2>2. \A v \in Tool : Covers(r, s, v)'
    BY <2>1 DEF Covers
  <2>. QED BY <1>2, <2>2 DEF Accounted
<1>3. CASE s \notin {t, u}
  <2>1. Unmoved(t) /\ Unmoved(u)
    BY <1>3
  <2>2. Collide(t, u)
    BY <1>1, <2>1, CollideKept
  <2>3. ~Covers(r, t, u) /\ ~Covers(r, u, t)
    BY DEF Covers
  <2>. QED BY <1>1, <2>1, <2>2, <2>3, AccountedKept DEF CoverInv
<1>. QED BY <1>2, <1>3

(* A row that a step does not touch.                                       *)
LEMMA RowUntouched ==
  ASSUME NEW t, tool'[t] = tool[t]
  PROVE  Unmoved(t)
BY DEF Unmoved, Exists, SameDefinition

(* The handlers of the registry.                                           *)
LEMMA RegistryCovered ==
  ASSUME TypeInv, JobsOK, CoverInv, NEW r \in Request, RegistryStep(r)
  PROVE  CoverInv'
<1>1. OthersKept(r)
  <2>1. \A q \in Request \ {r} : req'[q] = req[q]
    BY DEF RegistryStep, Handler, RegisterCheck, RegisterInsert,
           RegisterRefused, UpdateLoad, UpdateCommit, DeprecateLoad,
           DeprecateCommit, Abandon, TypeInv, TypeOK
  <2>2. \A q \in Request \ {r} : job'[q] = job[q]
    BY DEF RegistryStep, JobsOK
  <2>. QED BY <2>1, <2>2 DEF OthersKept, RegistryStep
<1>2. job'[r].stage = "none"
  BY DEF RegistryStep, JobsOK, NoJob, JobAt
<1>3. CASE UNCHANGED tool
  <2>1. \A t \in Tool : Unmoved(t)
    BY <1>3, RowUntouched
  <2>2. ASSUME NEW t \in Tool, NEW u \in Tool, Covers(r, t, u)
        PROVE  Accounted(t, u)'
    BY <2>2 DEF Covers, Accounted, RegistryStep
  <2>. QED BY <1>1, <2>1, <2>2, QuietMove
<1>4. CASE RegisterInsert(r)
  <2>1. PICK t \in Tool :
          /\ tool' = [tool EXCEPT ![t] = req[r].mine]
          /\ req' = [req EXCEPT ![r] = Background(t)]
    BY <1>4 DEF RegisterInsert
  <2>2. \A v \in Tool \ {t} : Unmoved(v)
    BY <2>1, RowUntouched DEF TypeInv, TypeOK
  <2>3. req'[r].op = "background" /\ req'[r].tool = t
    BY <2>1 DEF Background, TypeInv, TypeOK
  <2>4. req[r].op # "background"
    BY <1>4 DEF RegisterInsert
  <2>. QED BY <1>1, <1>2, <2>2, <2>3, <2>4, DefinitionMove
<1>5. ASSUME UpdateCommit(r) \/ DeprecateCommit(r) PROVE CoverInv'
  <2>1. req[r].tool \in Tool /\ req[r].op # "background"
    BY <1>5
    DEF UpdateCommit, DeprecateCommit, TypeInv, SessionsOK, SessionOK
  <2>2. PICK t \in Tool : t = req[r].tool
    BY <2>1
  <2>. DEFINE new == Flush(tool[t], req[r].seen, req[r].mine)
  <2>3. tool' = [tool EXCEPT ![t] = new]
    BY <1>5, <2>2 DEF UpdateCommit, DeprecateCommit
  <2>. HIDE DEF new
  <2>4. /\ tool'[t] = new
        /\ \A v \in Tool \ {t} : Unmoved(v)
    BY <2>3, RowUntouched DEF TypeInv, TypeOK
  <2>5. CASE UpdateCommit(r)
    <3>1. req'[r].op = "background" /\ req'[r].tool = t
      BY <2>2, <2>5 DEF UpdateCommit, Background, TypeInv, TypeOK
    <3>. QED BY <1>1, <1>2, <2>1, <2>4, <3>1, DefinitionMove
  <2>6. CASE DeprecateCommit(r)
    <3>1. /\ tool[t] \in Row /\ req[r].seen \in Row /\ req[r].mine \in Row
          /\ req[r].seen.is_deleted = FALSE
          /\ req[r].mine.is_deleted = TRUE
      BY <2>2, <2>6
      DEF DeprecateCommit, TypeInv, TypeOK, SessionsOK, SessionOK, Exists
    <3>2. new.is_deleted = Col(tool[t].is_deleted, req[r].seen.is_deleted,
                               req[r].mine.is_deleted)
      BY <3>1, FlushFacts DEF new
    <3>3. ~Active(t)'
      BY <2>4, <3>1, <3>2 DEF Col, Active, Live
    <3>. QED BY <1>1, <2>1, <2>4, <3>3, DefinitionMove
  <2>. QED BY <1>5, <2>5, <2>6
<1>. QED
  BY <1>3, <1>4, <1>5
  DEF RegistryStep, Handler, RegisterCheck, RegisterRefused, UpdateLoad,
      DeprecateLoad, Abandon
-----------------------------------------------------------------------------
(* The commit of an analysis leaves every definition alone.                *)
LEMMA CommittedUnmoved ==
  ASSUME TypeInv, NEW r \in Request, JobOK(r), job[r].stage # "none",
         NEW status, NEW mine \in Row, NEW conflicts,
         SameDefinition(mine, job[r].seen),
         Committed(r, status, mine, conflicts)
  PROVE  \A v \in Tool : Unmoved(v)
<1>1. req[r].tool \in Tool /\ tool[req[r].tool] \in Row
  BY DEF JobOK, TypeInv, TypeOK, SessionsOK, SessionOK, Exists
<1>2. PICK t \in Tool : t = req[r].tool
  BY <1>1
<1>. DEFINE new == Flush(tool[t], job[r].seen, mine)
<1>3. tool' = [tool EXCEPT ![t] = new]
  BY <1>2 DEF Committed
<1>4. new \in Row /\ SameDefinition(new, tool[t])
  <2>1. new \in Row
    BY <1>1, <1>2, FlushFacts DEF JobOK
  <2>2. SameDefinition(new, tool[t])
    BY DEF Flush, Col, SameDefinition
  <2>. QED BY <2>1, <2>2
<1>. HIDE DEF new
<1>5. Unmoved(t)
  <2>1. tool'[t] = new /\ tool[t] \in Row
    BY <1>1, <1>2, <1>3 DEF TypeInv, TypeOK
  <2>. QED BY <1>4, <2>1, NoRowAssumption DEF Unmoved, Exists
<1>6. \A v \in Tool \ {t} : Unmoved(v)
  BY <1>3, RowUntouched DEF TypeInv, TypeOK
<1>. QED BY <1>5, <1>6

(* The steps that read: what the analysis has found only grows, and the    *)
(* list of peers holds every tool the candidate collides with.             *)
LEMMA ReadingCovered ==
  ASSUME TypeInv, JobsOK, CoverInv, NEW r \in Request,
         \/ AnalysisSkip(r) \/ LoadCandidate(r) \/ LoadPeers(r)
         \/ Refresh(r) \/ Search(r)
  PROVE  CoverInv'
<1>1. tool' = tool
  BY DEF AnalysisSkip, LoadCandidate, LoadPeers, Refresh, Search
<1>2. \A t \in Tool : Unmoved(t)
  BY <1>1, RowUntouched
<1>3. OthersKept(r)
  BY DEF OthersKept, AnalysisSkip, LoadCandidate, LoadPeers, Refresh, Search,
         Ended, JobsOK, TypeInv, TypeOK
<1>4. ASSUME NEW t \in Tool, NEW u \in Tool, t # u,
             Collide(t, u) \/ Collide(u, t), Covers(r, t, u)
      PROVE  Accounted(t, u)'
  <2>1. /\ Active(t) /\ Active(u)
        /\ EnvOf[tool[t].key] = EnvOf[tool[u].key]
        /\ req[r].op = "background" /\ req[r].tool = t
    BY <1>4 DEF Collide, Covers
  <2>2. SUFFICES ASSUME req' = req
                 PROVE  Covers(r, t, u)'
    <3>1. ~AnalysisSkip(r)
      BY <2>1 DEF AnalysisSkip, Active
    <3>2. req' = req
      BY <3>1 DEF LoadCandidate, LoadPeers, Refresh, Search
    <3>. QED BY <3>2, <2>2 DEF Accounted
  <2>3. CASE LoadCandidate(r)
    <3>1. job'[r].stage = "candidate" /\ job'[r].seen = tool[t]
      BY <2>1, <2>3 DEF LoadCandidate, JobAt, JobsOK
    <3>. QED BY <1>1, <2>1, <2>2, <3>1 DEF Covers, SameDefinition
  <2>4. CASE LoadPeers(r)
    <3>. DEFINE rows == {tool[v] : v \in Peers(t)}
    <3>1. tool[u] \in rows
      BY <1>4, <2>1 DEF Peers
    <3>2. SameDefinition(job[r].seen, tool[t]) /\ job[r].stage = "candidate"
      BY <1>4, <2>4 DEF Covers, LoadPeers, At
    <3>3. /\ job'[r].stage = "loaded"
          /\ job'[r].found = Static(job[r].seen, rows)
      BY <2>1, <2>4 DEF LoadPeers, JobAt, JobsOK
    <3>4. Static(job[r].seen, {tool[u]}) = Static(tool[t], {tool[u]})
      <4>1. SameDefinition(tool[u], tool[u])
        BY DEF SameDefinition
      <4>. QED BY <3>2, <4>1, StaticSame
    <3>5. Static(job[r].seen, {tool[u]}) \subseteq Static(job[r].seen, rows)
      <4>. HIDE DEF rows
      <4>. QED BY <3>1, StaticGrows
    <3>6. Static(tool[t], {tool[u]}) \subseteq job'[r].found
      BY <3>3, <3>4, <3>5
    <3>. QED BY <1>1, <2>1, <2>2, <3>3, <3>6 DEF Covers
  <2>5. CASE Refresh(r)
    <3>1. /\ job[r].stage = "loaded" /\ job'[r].stage = "embedded"
          /\ job'[r].found = job[r].found
      BY <2>5 DEF Refresh, At, JobAt, JobsOK
    <3>. QED BY <1>1, <1>4, <2>1, <2>2, <3>1 DEF Covers
  <2>6. CASE Search(r)
    <3>1. /\ job[r].stage = "embedded" /\ job'[r].stage = "searched"
          /\ job[r].found \subseteq job'[r].found
      BY <2>6 DEF Search, At, JobAt, JobsOK
    <3>. QED BY <1>1, <1>4, <2>1, <2>2, <3>1 DEF Covers
  <2>7. CASE AnalysisSkip(r)
    BY <2>1, <2>7 DEF AnalysisSkip, Active
  <2>. QED BY <2>3, <2>4, <2>5, <2>6, <2>7
<1>. QED BY <1>2, <1>3, <1>4, QuietMove

\* Request r commits a run that records every finding or says "failed".
CommitsRun(r, status, mine, conflicts) ==
  /\ mine \in Row
  /\ SameDefinition(mine, job[r].seen)
  /\ Committed(r, status, mine, conflicts)
  /\ \/ status = "failed"
     \/ /\ status = "completed"
        /\ \E first : conflicts =
             {Recorded(req[r].tool, f, first) : f \in job[r].found}

(* The steps that commit a run: it records every finding, or says that the *)
(* analysis failed.                                                        *)
LEMMA CommitCovered ==
  ASSUME TypeInv, JobsOK, CoverInv, NEW r \in Request,
         \/ Complete(r) \/ EmbedFails(r) \/ UpsertFails(r) \/ SearchFails(r)
  PROVE  CoverInv'
<1>1. /\ req[r].op = "background" /\ JobOK(r)
      /\ job[r].stage \notin {"none", "candidate"}
      /\ job[r].seen \in Row /\ job[r].mine \in Row
      /\ SameDefinition(job[r].mine, job[r].seen)
      /\ SameDefinition(job[r].seen, job[r].seen)
  BY DEF Complete, EmbedFails, UpsertFails, SearchFails, At, JobsOK, JobOK,
         SameDefinition
<1>2. PICK status, mine, conflicts : CommitsRun(r, status, mine, conflicts)
  <2>1. CASE Complete(r)
    <3>1. PICK first \in Firsts(job[r].peers) :
            Committed(r, "completed", job[r].mine,
              {Recorded(req[r].tool, f, first) : f \in job[r].found})
      BY <2>1 DEF Complete
    <3>2. CommitsRun(r, "completed", job[r].mine,
            {Recorded(req[r].tool, f, first) : f \in job[r].found})
      BY <1>1, <3>1 DEF CommitsRun
    <3>. QED BY <3>2
  <2>2. CASE EmbedFails(r)
    <3>1. CommitsRun(r, "failed", job[r].seen, {})
      BY <1>1, <2>2 DEF EmbedFails, CommitsRun
    <3>. QED BY <3>1
  <2>3. CASE UpsertFails(r)
    <3>1. CommitsRun(r, "failed", Refreshed(job[r].seen), {})
      BY <1>1, <2>3, RefreshedRow DEF UpsertFails, CommitsRun
    <3>. QED BY <3>1
  <2>4. CASE SearchFails(r)
    <3>1. CommitsRun(r, "failed", job[r].mine, {})
      BY <1>1, <2>4 DEF SearchFails, CommitsRun
    <3>. QED BY <3>1
  <2>. QED BY <2>1, <2>2, <2>3, <2>4
<1>3. \A v \in Tool : Unmoved(v)
  BY <1>1, <1>2, CommittedUnmoved DEF CommitsRun
<1>4. lost' = lost
  BY DEF Complete, EmbedFails, UpsertFails, SearchFails
<1>5. OthersKept(r)
  BY <1>2, <1>4 DEF OthersKept, CommitsRun, Committed, Ended, JobsOK, TypeInv, TypeOK
<1>6. ASSUME NEW t \in Tool, NEW u \in Tool, Covers(r, t, u)
      PROVE  Accounted(t, u)'
  <2>. DEFINE run == [tool |-> t, status |-> status, conflicts |-> conflicts]
  <2>1. run \in runs'
    BY <1>2, <1>6 DEF CommitsRun, Committed, Covers
  <2>2. CASE status = "failed"
    BY <2>1, <2>2 DEF Failed, Accounted
  <2>3. CASE /\ status = "completed"
             /\ \E first : conflicts =
                  {Recorded(req[r].tool, f, first) : f \in job[r].found}
    <3>1. PICK first : conflicts =
            {Recorded(req[r].tool, f, first) : f \in job[r].found}
      BY <2>3
    <3>2. \A f : Recorded(req[r].tool, f, first).finding = f
      BY DEF Recorded
    <3>3. job[r].found \subseteq {c.finding : c \in conflicts}
      BY <3>1, <3>2
    <3>4. Static(tool[t], {tool[u]}) \subseteq job[r].found
      BY <1>1, <1>6 DEF Covers
    <3>5. Static(tool'[t], {tool'[u]}) = Static(tool[t], {tool[u]})
      BY <1>3, StaticSame DEF Unmoved
    <3>6. ReportedBy(t, u)'
      BY <2>1, <2>3, <3>3, <3>4, <3>5 DEF ReportedBy
    <3>. QED BY <3>6 DEF Accounted
  <2>. QED BY <1>2, <2>2, <2>3 DEF CommitsRun
<1>. QED BY <1>3, <1>5, <1>6, QuietMove

(* Every step keeps each colliding pair accounted for.                     *)
LEMMA NextCoverInv ==
  ASSUME TypeInv, JobsOK, CoverInv, [AnalysisNext]_analysisVars
  PROVE  CoverInv'
<1>1. CASE UNCHANGED analysisVars
  <2>1. /\ tool' = tool /\ req' = req /\ job' = job
        /\ runs' = runs /\ lost' = lost
    BY <1>1 DEF analysisVars
  <2>2. ASSUME NEW t \in Tool, NEW u \in Tool, Collide(t, u)'
        PROVE  Collide(t, u)
    BY <2>1, <2>2, RowUntouched, CollideKept
  <2>3. ASSUME NEW t \in Tool, NEW u \in Tool, Accounted(t, u)
        PROVE  Accounted(t, u)'
    BY <2>1, <2>3 DEF Accounted, ReportedBy, Failed, Covers
  <2>. QED BY <2>2, <2>3 DEF CoverInv
<1>2. ASSUME NEW r \in Request, AnalysisStep(r) PROVE CoverInv'
  BY <1>2, ReadingCovered, CommitCovered DEF AnalysisStep
<1>. QED BY <1>1, <1>2, RegistryCovered DEF AnalysisNext

-----------------------------------------------------------------------------
(* However the registrations, the updates and the analyses of two active   *)
(* tools overlap: a conflict between their definitions is recorded by a    *)
(* completed analysis of one of them, still being analysed, or one of the  *)
(* two has an analysis that failed or was lost.                            *)
THEOREM NoConflictIsMissed == AnalysisSpec => []NoConflictMissed
<1>1. AnalysisInit => CoverInv
  BY NoRowAssumption
  DEF AnalysisInit, Init, CoverInv, Collide, Active, Live, Exists
<1>2. IInv /\ JobsOK /\ CoverInv /\ [AnalysisNext]_analysisVars => CoverInv'
  BY NextCoverInv DEF IInv
<1>3. CoverInv => NoConflictMissed
  BY DEF CoverInv, NoConflictMissed, Accounted, Covers, Analysing
<1>. QED BY <1>1, <1>2, <1>3, AnalysisInvariance, PTL DEF AnalysisSpec
=============================================================================
