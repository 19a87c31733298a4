# A TLA+ model of the MCP Tool Governance System

The system (`src/mtgs`) keeps a registry of MCP tools, analyses every new or
changed definition for conflicts with the active tools of its environment, and
around that offers approvals, a CI gate, a life cycle for conflicts, an audit
log, notifications, Celery tasks and the synchronisation with MCP servers. This
directory holds TLA+ modules of these components, TLC configurations that check
them on small instances, and TLAPS proofs for every value of the constants.

## Inventory

| Component | State | Operations | Hard behaviour | What makes it correct |
|---|---|---|---|---|
| Tool registry (`api/v1/tools.py`, `models/tool.py`) | tables `tools`, `tool_versions` | register, update, deprecate; reads | sessions load in one transaction step and write in a later one, READ COMMITTED, no row locks on reads, UPDATE of changed columns only | unique names, a version history that can be replayed, deprecation that lasts |
| Conflict analysis (`workers/tasks.py`) | one session, `analysis_runs`, `conflicts`, embedding columns | load candidate and peers, embed, upsert, three stages, commit or FAILED | runs in the background while other requests write; three external calls that fail; index writes are not rolled back | no conflict between two active tools is missed by both analyses; embedding columns stay coherent |
| Embeddings and index (`core/embeddings`) | the search index | upsert, nearest-neighbour search | partial effects of failed calls | row and index agree |
| Detection pipeline (`core/conflict_detection`) | none | lexical, schema, semantic stage | short-circuit on CRITICAL, thresholds, scores that may depend on the direction | the same whichever tool is the candidate; nothing worse is left out |
| Circuit breaker (`core/resilience`) | state, failure count, probe count, last failure | call, success, failure, reset | the protected call is awaited outside the lock; late results | opens on the threshold, waits the timeout, recovers |
| Approval workflow (`core/approval`, `api/v1/approvals.py`) | a dict of requests in the process | create, decide, list | TTL evaluated lazily, restart loses the store | settled at most once, never decided after the TTL, nothing waits for ever |
| Conflict lifecycle (`api/v1/conflicts.py`) | status, resolution fields | report, PATCH | any status after any other, role checks on a row that may be out of date, UPDATE of changed columns only | who settled a conflict is on it; only admins suppress CRITICAL ones |
| CI gate and tool check (`webhooks.py`, `tools.py`) | none | decide | severity threshold, a policy that may be any string, other registrations between two checks | the worst is always blocked; a refusal stands |
| Celery tasks (`workers`) | queue, worker processes | batch embedding, sync, scan | late acknowledgement, worker loss, a retry published before the original is acknowledged | nothing lost, nothing multiplied, everything ends, half-done work is repeated |
| MCP sync (`core/sync`) | none | diff | duplicates in a list, what the comparison normalises, what the registry refuses or ignores of a listed definition, deprecated rows | a partition of the tools; acting on a report converges, but for what no request can settle |
| Orchestrator, simulator, probes, recommendations (`core`) | none | run | several gathered calls of which some fail | failures cost only their own results; a risk score that follows the severities |
| Notifications (`core/notifications`) | none | dispatch | channels that refuse or raise | the worst conflict reaches every channel |
| Audit (`core/audit`, `dashboard/src/pages/AuditPage.tsx`) | an append-only list; the answers a browser keeps | record, list, count, export | pages by position while the list grows; pages shown from a cache of 10 s | a walk misses nothing, unless it shows an older page after a newer one; pages, count and export agree |
| Analysis runs API, health score | none of its own | queries, one insert | an order of status changes that lowers the score | the score falls only when something opens |
| Authentication | users, keys (read) | resolve, role check | none | role order |

How they interact: `register_tool` and `update_tool` commit and then hand the
tool to `run_conflict_analysis_task` as a background task. That name is defined
twice in `workers/tasks.py`; the second definition, a plain coroutine, is the one
imported. Its call of `.delay` raises, so the fallback runs the analysis inline,
in the API process: no queue, no retry. The analysis reads the registry, writes
the index through the embedding clients and commits its run, its conflicts and
the embedding columns in one transaction. Approvals, audit, notifications, the
orchestrator and the circuit breakers are not called by those handlers at all
(the documents describe them as if they were); they are components of their own.

The table `components` of `PROJECT.json` lists every part with its status, and
`hazards` lists the behaviours that are hard to test, each at its line with the
properties that cover it.

## Modules

| Module | What it is |
|---|---|
| `ToolRegistry` | the registry and the sessions of its handlers |
| `MCToolRegistry` | its TLC instance |
| `ToolRegistryProofs` | theorems about it |
| `ConflictAnalysis` | the analysis, composed with `ToolRegistry` and refining it |
| `MCConflictAnalysis` | its TLC instances |
| `ConflictAnalysisProofs` | the refinement, the coherence of the embedding columns, and that no conflict between two active tools is missed |
| `CircuitBreaker` | the breaker with its fairness (TLC runs it as it is) |
| `CircuitBreakerProofs` | theorems about it |
| `Access` | the order of the roles, used by `Approvals` and `ConflictLifecycle` |
| `ApprovalPromise` | what the approval workflow promises, without clock, store or reviewer |
| `Approvals` | the workflow as it is coded; implements `ApprovalPromise` |
| `AuditLog` | the log, its queries and exports, and the page that walks through it |
| `Governance` | the API process: `Approvals` and `AuditLog`, which live and die together |
| `MCGovernance` | its TLC instance |
| `GovernanceProofs` | the refinement of the approvals, the walk through the log, its pages and its exports |
| `Tasks` | queue, workers and tasks of Celery |
| `MCTasks` | its TLC instance |
| `TasksProofs` | theorems about it |
| `Severities` | the severities and their order, used by the next five |
| `Detection` | the stages as functions |
| `ConflictGate` | the two gates and the pipeline run over them, against a registry that changes; extends `Detection` |
| `ConflictLifecycle` | the rows of conflicts, PATCH and the health score |
| `Lists` | the list comprehension with a condition, used by `AuditLog` and `Orchestration` |
| `Notifications` | the router |
| `Orchestration` | `AnalysisOrchestrator.run` composed with the router |
| `OrchestrationProofs` | theorems about both |
| `McpSync` | the diff and what is done with its report |
| `MCConflicts` | the TLC instance of `ConflictLifecycle`, `ConflictGate`, `Orchestration` and `McpSync` |
| `ConflictsProofs` | theorems about these four |
| `FoldLemmas` | what the folds of the community modules return: sums, filtered and reversed lists |

Definitions whose comment begins with "Fault:" are not part of a model. Each is a
variant of the definition that follows it with a plausible bug; a property that
does not fail on any such variant would say nothing.

### ToolRegistry

`tool` and `history` are the two tables, `req` the sessions of the requests in
progress. A handler is a step that loads (`RegisterCheck`, `UpdateLoad`,
`DeprecateLoad`) and a step that commits (`RegisterInsert` or `RegisterRefused`,
`UpdateCommit`, `DeprecateCommit`). A session remembers the row as loaded
(`seen`) and as the handler left it (`mine`); `Flush` is the UPDATE of the
SQLAlchemy unit of work, which carries only the columns where the two differ, and
is external code modelled from its use. Between the steps of one request any
other request may move. `Abandon` is a handler that raises, a client that goes
away or a process that dies: `get_db` rolls the session back. An update without
a change returns early and is no step. `BackgroundAnalysis` is the abstract
background task: any change of the embedding columns and nothing else.

A key stands for `(environment_id, server_id, name)`, which no handler changes.
`Settable` holds the strings a PUT may give as status; the handler accepts any,
so the instances include one that `ToolStatus` does not know.

### ConflictAnalysis

Each request in the background walks through `LoadCandidate`, `LoadPeers`,
`Refresh`, `Search` and `Complete`; `AnalysisSkip`, `EmbedFails`, `UpsertFails`
and `SearchFails` are its other exits, and `Abandon` of the registry loses it.
Stages 1 and 2 depend on nothing that is read later, so their findings are
computed in `LoadPeers`. The thresholds of the stages become relations:
equal lower-case names, `Overlap` (edit distance, token overlap, type collision,
required fields: all MEDIUM) and `Near` (cosine similarity). A fingerprint is
the key with the two definition columns; a digest and an embedding stand for the
text they are computed from. The search is unfiltered and approximate: it
returns any subset of the close documents, the candidate's own and deleted
tools' included. A finding knows the other tool by name only, and the recorded
id is that of the first peer with that name, in the order of the database.
`lost` is a history variable: tools whose background work disappeared without a
row, or whose document the index refused (which is only logged).

### CircuitBreaker

`Admit` and `Reject` are `call` up to the await, `OnSuccess` and `OnFailure` the
two callbacks, `Escape` a cancelled call or an exception the breaker does not
expect, `Reset` the manual reset. A section under the lock never suspends, so
each is one step. `elapsed` counts ticks since the last failure up to the
timeout.

### Approvals, AuditLog, Governance

No route of these two services awaits anything that suspends between its checks
and its assignments, so a route is one step; what interleaves is the routes of
several callers, the clock and the end of the process.

`store` is the dict of `ApprovalService`, `issued` the ids drawn so far (which
the process forgets and `uuid4` does not repeat), `now` the clock in days.
`Create` and `Decide` are the two writing routes with the checks of the route and
of the workflow; a refusal writes nothing and is no step. `Decide` has one reading of
the clock for the check and for the time it stores; the code takes two, some
microseconds apart (`core/approval/workflow.py:93`, then `:106` or `:114`), so that a
decision may be stored with a time that much after its end. No code ever writes the
status EXPIRED: `IsExpired` is asked each time. `ApprovalPromise` is the life of a
request as the docstring of the workflow states it; the refinement mapping
`Outcome` computes from store, clock and ids what has become of each request,
so that one `Tick` may be the `Expire` of several requests and a restart is
`Forget`, also for requests that were settled.

`AuditLog` keeps the list oldest first. `ListEntries`, `Count` and `Export` are
three queries of the code; the three copies of the filter they have are one
operator, `Matching`, so that a disagreement between the copies is not modelled.
`Esc` is the escaping of `to_cef`, symbol after symbol and in its order, and
`ExportCef` the file, a single text with a newline between two records.

`reader` is the `AuditPage` of one browser while entries are recorded. `cache` holds
the answers its query client has that are younger than 10 s (`staleTime`,
`dashboard/src/main.tsx:19`): `OpenLog` and `Turn` show an answer of the cache if there
is one, with the total and the entries of the time it was read, and ask the server
otherwise. `GoStale` ends the 10 s of the oldest. A reader waits until the page has
arrived; an older answer that is shown while it is fetched again is not counted as
read. `unseen`, `at` and `inOrder` are history variables. `Restart` of `Governance`
empties both singletons and leaves the browser with its cache alone.

### Tasks

`queue` is a bag of messages, each a call with its number of retries; `worker`
says where each process is: it has taken a message, loaded its tools, or settled
the task and not yet acknowledged it. `Crash` at any of these points gives the
message back (`task_acks_late`, `task_reject_on_worker_lost`). `Fail` is an
exception anywhere: rollback, and `self.retry`, which publishes a copy before the
original is acknowledged, or the end. A batch upserts tool after tool (`Upsert`)
and commits once (`Commit`), writing only the columns that changed. The API may
update and delete tools meanwhile. The two sync tasks raise at their import and
the scan at its first active tool, so that their only steps are `Fail` and, for
an empty registry, `ScanNothing`.

### Detection and ConflictGate

`Lexical`, `TypeCollisions`, `RequiredOverlap` and `Semantic` are the stages with
their thresholds, scores and severities. Names are model values whose lower-case
form, tokens and edit distances are constants; scores are kept in sixtieths, in
which every quotient of up to six tokens or fields is exact. In `ConflictAnalysis`
the same stages are relations, because there only who collides with whom matters.

`active` is the registry as the gates see it; `Enlist` and `Withdraw` are what
registrations, updates and deprecations do to it. `CheckTool` and `CiCheck` are the
two gates; `CiCheck` finds its environment through the organisation of its key.
`answer` is what the last check said and what it had seen.

### ConflictLifecycle

A PATCH is a session as those of `ToolRegistry` are: `PatchLoad` makes all checks,
the one of the role against the severity included, `PatchCommit` writes what
differs from the row as loaded (`Patched`). `resolved_at` is kept as whether it is
set. `HealthScore` is computed by the health route from the rows that are open.

### Notifications and Orchestration

`run` goes through the phases of `AnalysisOrchestrator.run`. The calls of one
`asyncio.gather` do not depend on each other and write nothing, so a gather is one
step that returns any combination of answers and exceptions. What models answer
is drawn from small sets with repeated, empty and malformed members. The event is
handed to the router's own steps, one per channel, since channels are tried one
after the other.

### McpSync

`Diff` is the comparison, with duplicates in a list (the last one counts),
descriptions stripped on both sides and schemas compared only if one is stored.
`report` is what is left to do of the latest report; the other actions are the
requests of the people who work it off, through the registry's API, with what that
API does to them: `RegisterAdded` needs a name, a description and a schema that
`ToolRegisterRequest` accepts and stores the name without the blanks around it; a PUT
needs a description that is long enough and ignores an empty schema (`Updated`). What
is refused stays on the report. A name whose row is deprecated cannot be
registered again.

### MCConflicts

Its four components share no variable. Their product would only multiply the
states, and no property relates two of them; so `part` says of each behaviour whose
it is, and the others rest in their initial states. Every behaviour of each
component is a behaviour of the instance. `MCGovernance` has `part` too, for the
requests and the log; a behaviour of one of them includes the restarts.

## Runs

| Run | Instance and bounds | What it shows |
|---|---|---|
| `registry` | 2 ids, 1 key, 2 descriptions, 2 schemas, 2 requests, `MaxRevisions` 3 | `TypeOK`, `UniqueName`, `HistoryHasNoGap`, `DiffsGiveLiveDefinition`, `DeprecationIsFinal` |
| `analysis_pairs` | 2 tools on 2 keys whose names differ by case, one of them gated; `MaxRevisions` 2, `MaxSnapshots` 3, `MaxTrouble` 0 | `NoConflictMissed` |
| `analysis_one_tool` | 1 tool, 2 requests, `MaxRevisions` 3, `MaxSnapshots` 3, `MaxTrouble` 2 | `AnalysisTypeOK`, `HashedMeansEmbedded`, `ImplementsRegistry` |
| `breaker` | 3 callers, threshold 2, timeout 2, `MaxFailures` 6, `MaxProbes` 4 | `TypeOK`, `ClosedUnderThreshold`, `HalfOpenHasProbed`, `OpenWaits`, `OpenEndsEventually` |
| `governance` | 2 requests, 5 roles of which one is unknown, time to live 1, `MaxTime` 3; 2 actors, one with all symbols that are escaped and one with a newline, `PageSize` 1, `MaxRecords` 4, `MaxCached` 2 | `TypeOK`, `DecidedInTime`, `ImplementsPromise`, `NoRequestWaitsForever`, `WalkMissesNothing`, `PagesAddUpToExport`, `CefLosesNothing` |
| `tasks` | a batch of 2 tools and a scan, 2 workers, `MaxRetries` 1, `MaxCrashes` 1, `MaxEdits` 1 | `TypeOK`, `NothingLost`, `CopiesBounded`, `HashMeansIndexed`, `HalfDoneIsRetried`, `DoneMeansEmbedded`, `EveryCallEnds` |
| `conflicts` | 2 conflicts, an admin and a reviewer; 4 tools on 2 servers with all relations of names, 3 environments, `MaxActive` 2, hits at 79, 80 and 90 percent; up to 2 conflicts handed over, 3 channels of which 2 have one class; 3 names of which 2 are equal but for blanks, 4 definitions of which one has no schema and two are refused, lists of up to 2 entries | `TypeOK`, `SettledHasResolver`, `CriticalSuppressedByAdmin`, `ScoreFallsOnlyByOpening`, `StagesAreSymmetric`, `GateBlocksOnWorst`, `ShortCircuitKeepsWorst`, `FailuresAreIsolated`, `RiskFollowsSeverity`, `WorstIsNotified`, `SyncConverges` |
| `one_snapshot` | as `registry` | violated: two snapshots of one version |
| `deleted_status` | as `registry` | violated: a deleted tool with status active |
| `lexical_still_caught` | as `analysis_pairs`, `MaxTrouble` 1 | violated: a failed call drops the lexical findings |
| `embedding_mirror` | as `analysis_one_tool`, `MaxTrouble` 0 | violated: row and index differ for good, without any failure |
| `breaker_probes` | as `breaker` | violated: more probes than permitted |

Bounds. `MaxRevisions` (a guard of `UpdateLoad`) limits the snapshots a tool may
have when an update starts; two overlapping updates on top of two earlier
revisions already give repeated and reverted version numbers. `MaxSnapshots` and
`MaxTrouble` are state constraints of the analysis instances, on the snapshots of
all tools together and on failed runs plus lost tools: states beyond them are
checked, not explored. Two requests suffice for the races, which are all between
a load and a commit of another request, and a request can be reused, so any
number of operations can happen in sequence. `analysis_pairs` allows no trouble
because its property excuses failed and lost analyses; the excuse is exercised by
the last, unexplored layer and by `lexical_still_caught`, which drops it.
`MaxFailures` and `MaxProbes` cap the two counters of the breaker beyond its
threshold. Symmetry permutes ids and requests, and descriptions and schemas in
the registry, where nothing orders them; the instances with a liveness property
or unequal keys do not permute what the properties distinguish.

In `governance`, `MaxTime` bounds the clock; `Create` leaves the last moments to
requests that exist, so that each can expire within the bound. One entry on a page
makes every recorded entry shift every page, the hardest case for a walk, and
four entries make walks of four pages. `MaxRecords` counts over all lives of the
process. `MaxCached` bounds the answers that are fresh at one time: two are a page
from before and one from after an entry was recorded, which is what can be shown in
the wrong order. In `tasks`, `MaxCrashes` and `MaxEdits` count over the behaviour; one retry
with one lost worker gives three copies of one batch in flight for two workers,
two of which can overlap between any two of their steps, and one update or
deletion falls between any two of them. In `conflicts`, two PATCHes are what a race
between a load and a commit needs, the two severities are the one that needs an
admin and one that does not, and `Sent` holds a status the code refuses; two
active tools on either side of a check show what others register meanwhile; of two
conflicts handed over, two CRITICAL ones pass the cap of 60 on what conflicts add
to the risk, and a CRITICAL with a HIGH one meets it. Two entries of one name are a
duplicate; the descriptions of a list are equal, equal but for blanks, different, and
too short, and the schemas empty, acceptable and neither.

Deadlock is checked in every passing run but `tasks`: a request that is idle can
always start something, one that is not can be abandoned, and a process can always
be restarted. In `tasks` every call may be done and every bound used up, after
which nothing is left to happen.

Fairness. `breaker`, `governance` and `tasks` have liveness properties.

`Governance` assumes that time passes and nothing else: nobody has to decide, read
or restart. A request ends by a decision, a restart or the clock. `MCSpec` of
`MCGovernance` assumes it of the behaviours of the requests, the only ones in which
there are any.

`Tasks` assumes that while some worker can take a step, some worker does: the pool
replaces a lost process, and each external call has a timeout. It does not assume
that any particular worker moves, that calls succeed or that anything is
published. `EveryCallEnds` holds since retries are limited and workers are lost
finitely often (`MaxCrashes`; for ever losing workers would be for ever redelivering).

In `CircuitBreaker`, `FairSpec` assumes that time
passes, that a caller which is not awaiting calls again, and that an awaited call
ends (it has client timeouts): by returning, failing or being cancelled, with no
assumption on which. It assumes nothing on `Reset`. Without a further call an
open circuit stays open, since only `call` looks at the clock; hence the second
assumption.

## Proofs

`tlapm` checks eight modules. Every safety invariant, every action property and
both refinements that a passing run checks are theorems of the specification, for
every value of the constants; three liveness properties are not (see the end of
this section).

The only assumptions are those the modules state of their constants:
`RegistryAssumption` and `NoRowAssumption` (ToolRegistry), `AnalysisAssumption`,
`BreakerAssumption`, `ApprovalAssumption` and `NoRequestAssumption`,
`AuditAssumption`, `TasksAssumption`, `WorkerAssumption` and `NoRowAssumption`
(Tasks), `DetectionAssumption`, `GateAssumption`, `LifecycleAssumption`,
`NotificationsAssumption`, `OrchestrationAssumption`, `McpSyncAssumption`. The
values that stand for "nothing" are different from all others; an edit distance is
symmetric and no name has an empty set of tokens; in an organisation environments
have different names, a unique key of the database; a tool requires finitely many
fields and a hit scores between 0 and 100 percent; workers are finitely many; an
actor's name is a sequence of symbols, among which are the three CEF escapes, the
newline, and one that stands for what a record begins with; the registry's names
without blanks have none, and the empty schema is not registrable; a model answers
with a list. TLC evaluates every assumption in the runs.

* `ToolRegistryProofs`. The five properties of the run, for any ids, keys,
  requests and bound. The invariant `IInv` is the types, the properties, and what
  a session remembers between its load and its commit (`SessionOK`): its tool
  exists; an update raised the version it loaded by one, that version is in the
  history, and the flag `is_deleted` is as loaded; a deprecation loaded a row
  that was not deleted, sets the flag and leaves definition and version alone.
  The version argument then goes through although a stale UPDATE may move the
  live version back: the predecessor of the number it writes is in the history.
  The replay of the diffs holds because a diff names precisely the definition
  columns that `Flush` writes, `DeprecationIsFinal` because no UPDATE of a PUT
  carries the flag.
* `ConflictAnalysisProofs`. `AnalysisImplementsRegistry`: each step of an analysis
  is a stutter of the registry or its `BackgroundAnalysis`; the invariant `JobsOK`
  says that an analysis loaded its own tool and changed its embedding columns
  only. `RegistryPromisesHold` carries the registry's theorems over.
  `AnalysisTypeCorrect` needs `IndexedExists`: a document is only written for a tool
  that exists and rows stay, so that a hit of the search has a name.
  `HashNeverWithoutEmbedding` needs `EmbeddingInv`: an embedding a session has
  seen is still there (no step clears one), while a hash may have been cleared
  and rewritten under it.

  `NoConflictIsMissed`, for any tools, environments, names, thresholds and
  requests. The property says that something accounts for a colliding pair but not
  why it stays so; `CoverInv` adds that an analysis that accounts for a pair will
  report it: it has read nothing yet, or its candidate has the live definition, or
  its findings already hold what stages 1 and 2 say of the other tool (`Covers`).
  The argument follows the last commit that changed one of the two definitions
  (`DefinitionMove`): that commit leaves its tool to an analysis that has read
  nothing, and this analysis will read the other definition as it is, since both
  stay put from then on (`QuietMove`) or the argument starts again at the next
  commit.
* `CircuitBreakerProofs`. The four safety properties of the run. The state and
  the count determine each other in one inductive invariant.
* `GovernanceProofs`, the approvals. `ApprovalsImplementPromise`: every step of the
  process, those of the audit log included, is a step of `ApprovalPromise` or a
  stutter. The invariant is the types, `DecidedInTime` and that what is stored was
  issued, so that a new id never meets an old request. `Tick` maps to the `Expire`
  of the set of requests whose time ends at this tick; the other steps change the
  outcome of one request, for which the lemmas compute it before and after.
* `GovernanceProofs`, the log. `WalkMissesNothing` speaks of the last page only;
  `AuditInv` says why it comes out so, with a cache of any size. An id was drawn for
  one entry (`Distinct`); the filter of the reversed list is the reverse of the
  filtered one (`Mirrored`); the total of an answer is the number of the entries that
  matched when it was read, which `Counts` keeps for as long as the process lives.
  `AnswerOK` says of each answer of the cache, however long ago it was read, that it
  shows those entries of its time that lay on its page then (`AnswerRight`). The
  reader's part is `AheadOf`: counted from the front of the list as it was when the
  page was read, what was not seen lies beyond that page. An answer that was read
  later has moved each of these entries back by what was recorded in between, never
  to an earlier page (`LaterCountsMore`), so that turning to it keeps `AheadOf`
  (`AheadOfNext`); an answer that was read earlier may not, which is why the property
  asks for `inOrder`. On the last page nothing is left beyond it.
  `PagesMakeExport` joins the pages one by one: the first `p` of them are the first
  `p * PageSize` entries (`PageContinues`, `PagesFlatten`), and the count gives
  enough pages (`PagesSuffice`).
  `CefKeepsActors` reads back the file. A reader which splits it at the newlines gets
  the records (`JoinedReadsBack`), since no record has one: `Esc` brings none
  (`EscKeepsLine`) and the property is about actors without. Then each record is read
  back. A replacement takes the text symbol by symbol (`EscapedRuns`), hence `Esc` of a text with one more symbol is `Esc` of the
  text and one or two symbols more (`EscAppended`); a reader which has seen the
  first part stands outside an escape and reads precisely the symbol (`EscReadsBack`).
* `TasksProofs`. `NothingLost`, `HashMeansIndexed`, `DoneMeansEmbedded` and
  `HalfDoneIsRetried` for any calls, tools, workers, retries, losses and edits.
  None is inductive alone. `Sound` says what a job relies on when it commits: it
  has seen every tool of its call that is not deleted, what it has seen and no
  longer has to do is indexed or refused, an embedding it has seen is still there,
  and of a tool that was never updated it has seen the only text there was.
  `ToolOK` says the same of the copies at rest. Steps other than `Commit` only let
  things grow (`Grows`), under which `Sound` and `ToolOK` are stable.
  `CopiesAreBounded` adds up the messages of a call over its retries, and the
  workers that run it. `CopiesInv` is `IInv` with the bound: a call is published once
  because a call that is not issued has no copies (`NotPublished`), and every other
  step either moves one copy between the queue and a worker (`Moves`) or ends one; a
  retry is such a move, and only a lost worker allows for one more.
* `OrchestrationProofs`. The four properties of `Orchestration` and `Notifications`,
  for any models, votes, lists of conflicts and channels. The properties are about
  one phase; `OrchestrationInv` keeps them through the phases between, together with
  what the run holds (`RunHolds`), that the router's event is that of the run
  (`RunIsNotified`), and how far the router is (`RouterInv`): one message for each
  channel before the next one (`Reached`), and each class's result that of the last
  channel of it (`Answered`). The bounds on the score go from a sum over conflicts
  (`BaseFacts`) and the rounding of the shift (`ShiftFacts`) to the whole.
* `ConflictsProofs`. `PartsAreComponents`: a behaviour of the instance is one of each
  of its four components, so their theorems hold of the run.
  `SettledNamesResolver` and `OnlyAdminsSuppressCritical` for any users, roles and
  overlapping PATCHes. The invariant adds what a PATCH may still rely on although
  its row is out of date (`PatchSound`): the severity is as loaded, no step forgets
  a resolver, and the role check holds of the row as it is now because no step
  changes a severity. `OnlyOpeningLowersScore`: if no conflict becomes open, the
  open ones after a step are among those before it with the same severities, and a
  sum over a smaller set is no greater.
  The gates, whatever strings the policies are and whatever is registered and
  retired between two checks. `ShortCircuitLosesNothing`: a set with a CRITICAL
  finding has CRITICAL as its highest severity with and without stage 3.
  `GateRefusesWorst`: findings grow with the tools they are made from, and no
  threshold is above CRITICAL. `DirectionDoesNotMatter`: each of the three kinds of
  finding against a tool has its counterpart in the other direction.
  The sync. `SyncInv`: the report is the diff of the list with the rows as they are
  now (`Right`), except for the names no request can settle (`Unsettled`). A request
  changes one row; what it does to the diff elsewhere is nothing (`DiffElsewhere`),
  and the name itself is then unchanged (`UpdatedIsUnchanged`, `DiffSettled`), gone
  (`DiffGone`) or unsettled. What cannot be settled stays so, whatever is written
  (`UnsettledStays`).
* `FoldLemmas`. The prover has no induction over data with an operator as a
  parameter. These lemmas do without: the cases for which something holds are
  collected in a set, and a least one outside it is contradicted (`SubsetInduction`,
  `RangeInduction`). A fold is defined as a function chosen for its equation, so
  that the first thing to prove is that one exists (`FoldExists`, `LeftFoldExists`); the
  facts about sums, filtered and reversed lists that the modules above cite follow
  from the equation.

Only model-checked: liveness (`OpenEndsEventually`, `NoRequestWaitsForever`,
`EveryCallEnds`), which needs fairness and is out of the prover's reach, and the five
runs that show a violation.

Two properties became more precise while they were proved. Of more than 6666
queries one may shift without any trace in the risk score, which is rounded to two
places after 0.4 of a percentage that is itself rounded (`core/orchestrator.py:338`,
`:339`); `RiskFollowsSeverity` excludes this. And with no channels at all, nothing is
sent however severe the conflicts are; `WorstIsNotified` says so. Of the results of
the dispatch it says that a class reported as done has a channel that took the event;
the opposite, a failure that is recorded, is not so (see below).

## What the violated properties say

Each quotes a document or docstring, in `findings` of `PROJECT.json`. In short:
version numbers are not unique under concurrent updates; an update that overlaps
a deprecation can leave a deleted tool with another status; a failure of the
embedding service or the index silences the stages that need neither; the index
and the row can disagree after two overlapping analyses; `half_open_max_calls`
limits nothing.

## Other disagreements between code and documents

Met while modelling; each follows from the lines given, and no run is spent on it.

* `core/approval/workflow.py:4` says that severe conflicts "block the offending tool
  from being set to ACTIVE until a human reviewer approves"; any developer may PUT
  `status: active` (`api/v1/tools.py:396`), and no handler relates tools and
  requests.
* `core/approval/workflow.py:58` takes a request past its time as expired; it stays in
  the list of pending ones (`core/approval/service.py:96`) with status PENDING, for
  ever if nobody tries to decide it, as no code writes EXPIRED. `reviewer_id` and
  `requested_by` are always `"api"` (`api/v1/approvals.py:147`, `:164`), and two
  requests about one conflict may be decided in opposite ways.
* The hourly scan re-analyses nothing: `.delay` is called on the coroutine that
  shadows the task (`workers/tasks.py:455`, `:479`). Both sync tasks import
  `MCPServer`, which is called `McpServer`. `task_dead_letter_exchange`
  (`workers/celery_app.py:34`) is no setting of Celery: a task that fails for the
  last time is gone (`dead` in `Tasks`).
* A batch that overlaps two updates which revert each other may leave a fresh hash
  with the vector of the text in between (`workers/tasks.py:272`): this is why
  `HashMeansIndexed` excludes tools that were updated.
* A tool that an MCP server lists again after it was deprecated can never be
  stored again: the check of `register_tool` filters deleted rows out, the unique
  key does not, and the answer is a 500. In `McpSync` such a name stays in `added`.
* A reviewer whose PATCH overlaps that of an admin may become the `resolved_by` of a
  CRITICAL conflict the admin suppressed (`api/v1/conflicts.py:159`); `resolved_by`
  and `resolved_at` survive a reopening.
* Pages of conflicts filtered by status skip rows when an earlier one changes its
  status during the walk; count and page are two queries.
* The orchestrator drops the conflicts it was given when there is no existing tool,
  and a simulation may name tools at risk that do not exist. The router does not
  know INFO and dispatches it whatever the threshold; it tries channels one after
  the other where its docstring says concurrently.
* The command line client declares `--fail-on` (`cli/main.py:71`) and never uses it,
  and calls `/v1/environments`, which is no route. The manual trigger of an analysis inserts
  a row without two NOT NULL columns.
* The audit page asks again only for pages older than 10 s, while its totals and
  entries are by position. A reader who returns to page 1, which is fetched again, and
  goes on to a page 2 from the cache, read before an entry was recorded, does not see
  the entry that moved from the first page to the second: pages shown out of order are
  what `WalkMissesNothing` excludes.
* The CEF export promises "one CEF line per entry" (`api/v1/audit_logs.py:124`), but
  nothing escapes a newline (`core/audit/logger.py:121`), and records are joined with
  one (`api/v1/audit_logs.py:135`): an entry with a newline in a field becomes two
  lines. `CefLosesNothing` is about actors without; `actor_id` is an unchecked string.
* A tool that is listed without a schema and stored with one is reported as updated at
  every sync: the report compares the empty schema (`core/sync/mcp_sync.py:170`), the
  PUT that should bring it ignores it (`api/v1/tools.py:393`). A name listed with
  blanks around it is stored without them (`schemas/tool.py:29`), so that it is added
  and the stored one removed at every sync. `SyncConverges` excludes both
  (`Unsettled`).
* "Failed channels are recorded as False" (`core/notifications/service.py:13`): the
  results are kept by class name, so that of two channels of one class the second
  overwrites the failure of the first.
* Nothing calls `record()` of the audit log, the orchestrator or the router.

## Not modelled, and why

* Reads that change nothing, logging, request ids, settings, tokens and password
  hashing: no state a property could be about, or an input of the models.
* Migrations, models and schemas are layouts; their unique keys are in the models
  that need them. The dashboard but for the audit page, and the command line
  client, show answers of the API. The load benchmark is not part of the system.
* The list routes of analysis runs, and the manual trigger, which cannot succeed.
* What channels, prompts and recommendations say is wording.
* Pool limits and the retries inside one external call are abstracted: a call takes
  effect or not and reports success or failure. `embedding_model`, timestamps and
  scores of rows carry no control.
* A task that outlives the visibility timeout of Redis is delivered a second time
  while it runs. Neither the timeout nor the duration of a task is in the code, so
  `Tasks` redelivers only what a lost worker held.

## Plan

1. Done: registry, analysis, breaker; approvals with their abstract specification,
   audit log, tasks, conflict lifecycle, detection and gates, orchestration and
   notifications, sync; proofs of every safety and action property of the runs.
2. Proofs that are left: promises for which no run has a property yet, such as an
   abstract specification of the task queue that `Tasks` implements, and one of the
   audit log with its reader.
3. The approval of a tool and its status together, if the code ever relates them.

Modules that are proved about use no `RECURSIVE` operator; iteration is written with
the folds of the community modules.
