------------------------------- MODULE Tasks --------------------------------
(***************************************************************************)
(* The Celery side of workers/tasks.py: the queue, the worker processes    *)
(* with late acknowledgement, retries and the loss of a worker, and what   *)
(* each task does when a worker runs it:                                   *)
(*   "embeddings"  generate_embeddings_task, the only one with an effect;  *)
(*   "sync"        sync_mcp_server_task and                                *)
(*   "sync_all"    sync_all_mcp_servers_task, which import a class that    *)
(*                 does not exist (MCPServer) before they do anything;     *)
(*   "scan"        scheduled_conflict_scan_task, whose `.delay` is looked  *)
(*                 up on the coroutine that shadows the task of that name, *)
(*                 so that it fails at the first active tool it finds.     *)
(* Embedding tasks and single syncs have no caller in the repository: who  *)
(* publishes them is external, as is the broker (Redis).                   *)
(***************************************************************************)
EXTENDS Integers, FiniteSets, Functions

CONSTANTS
  Task,          \* calls published, each with its arguments
  KindOf,        \* the task function of each call
  ToolsOf,       \* tool_ids, for the calls that have them
  Registered,    \* the text each tool has at first
  Tool, Text,    \* a digest and a vector stand for the text they come from
  Worker,        \* worker processes (--concurrency=4)
  MaxRetries,    \* max_retries
  MaxCrashes,    \* bound: workers lost
  MaxEdits,      \* bound: updates of tools by the API
  None, NoTask

Kind == {"embeddings", "sync", "sync_all", "scan"}

Message == Task \X (0 .. MaxRetries)

ASSUME TasksAssumption ==
  /\ KindOf \in [Task -> Kind]
  /\ ToolsOf \in [Task -> SUBSET Tool]
  /\ Registered \in [Tool -> Text]
  /\ {MaxRetries, MaxCrashes, MaxEdits} \subseteq Nat
  /\ None \notin Text
  /\ NoTask \notin Task

ASSUME WorkerAssumption == IsFiniteSet(Worker)

Row == [text : Text, hash : Text \cup {None}, embedding : Text \cup {None}]

ASSUME NoRowAssumption == None \notin Row

VARIABLES
  row,       \* the columns of each tool that matter here
  deleted,   \* tools with is_deleted
  index,     \* the search index
  queue,     \* how many copies of each message the broker holds
  worker,    \* what each process is doing
  issued,    \* calls published so far
  done, dead,    \* calls that returned, and that failed for the last time
  crashes, edits,
  edited, refused  \* for the properties: tools updated since they were
                   \* registered, documents the index refused

tasksVars == <<row, deleted, index, queue, worker, issued, done, dead,
               crashes, edits, edited, refused>>

store == <<row, deleted, index, edited, refused, edits>>

-----------------------------------------------------------------------------
JobAt(task, retries, stage, seen, pending) ==
  [task |-> task, retries |-> retries, stage |-> stage, seen |-> seen,
   pending |-> pending]

Unread == [u \in Tool |-> None]

Idle == JobAt(NoTask, 0, "idle", Unread, {})

Init ==
  /\ row = [u \in Tool |-> [text |-> Registered[u], hash |-> None, embedding |-> None]]
  /\ deleted \in SUBSET Tool
  /\ index = [u \in Tool |-> None]
  /\ queue = [m \in Message |-> 0]
  /\ worker = [w \in Worker |-> Idle]
  /\ issued = {} /\ done = {} /\ dead = {}
  /\ crashes = 0 /\ edits = 0 /\ edited = {} /\ refused = {}

Published(m) == [queue EXCEPT ![m] = @ + 1]

\* apply_async by a caller, or beat when the hour has come.
Publish(t) ==
  /\ t \notin issued
  /\ issued' = issued \cup {t}
  /\ queue' = Published(<<t, 0>>)
  /\ UNCHANGED <<store, worker, done, dead, crashes>>

\* Fault: task_acks_late is off, and a message is forgotten when it is taken:
\* a lost worker has nothing to give back.
GivenBackNever(w) == queue

\* task_acks_late and task_reject_on_worker_lost: what a lost worker had not
\* acknowledged is delivered again.
GivenBack(w) == Published(<<worker[w].task, worker[w].retries>>)

\* Fault: one off, a message that is not there is taken.
HeldOrNot(m) == queue[m] >= 0

Held(m) == queue[m] > 0

Take(w, m) ==
  /\ worker[w].stage = "idle"
  /\ Held(m)
  /\ queue' = [queue EXCEPT ![m] = @ - 1]
  /\ worker' = [worker EXCEPT ![w] = JobAt(m[1], m[2], "taken", Unread, {})]
  /\ UNCHANGED <<store, issued, done, dead, crashes>>

At(w, stage) == worker[w].stage = stage

Running(w) == worker[w].stage \in {"taken", "loaded"}

Settled(w) ==
  worker' = [worker EXCEPT ![w] = JobAt(@.task, @.retries, "settled", Unread, {})]

(* The session of a batch reads its tools, those that are deleted left out,*)
(* and embed_batch makes the vectors: one call, no effect elsewhere.       *)
Load(w) ==
  LET t == worker[w].task
      live == ToolsOf[t] \ deleted
  IN  /\ At(w, "taken")
      /\ KindOf[t] = "embeddings"
      /\ worker' = [worker EXCEPT ![w] =
           JobAt(t, @.retries, "loaded",
                 [u \in Tool |-> IF u \in live THEN row[u] ELSE None], live)]
      /\ UNCHANGED <<store, queue, issued, done, dead, crashes>>

(* One turn of the loop; the order of the tools is the database's.  A      *)
(* document the service refuses is only logged.                            *)
Upsert(w, u) ==
  /\ At(w, "loaded")
  /\ u \in worker[w].pending
  /\ worker' = [worker EXCEPT ![w] =
       JobAt(@.task, @.retries, "loaded", @.seen, @.pending \ {u})]
  /\ \/ index' = [index EXCEPT ![u] = worker[w].seen[u].text] /\ refused' = refused
     \/ index' = index /\ refused' = refused \cup {u}
  /\ UNCHANGED <<row, deleted, edited, edits, queue, issued, done, dead, crashes>>

\* The unit of work: what the session did not change keeps the stored value.
Col(stored, loaded, set) == IF set = loaded THEN stored ELSE set

Embedded(stored, seen) ==
  [text      |-> stored.text,
   hash      |-> Col(stored.hash, seen.hash, seen.text),
   embedding |-> Col(stored.embedding, seen.embedding, seen.text)]

\* Fault: each document is committed before it is indexed.
ReadyAtOnce(w) == At(w, "loaded")

Ready(w) == At(w, "loaded") /\ worker[w].pending = {}

Commit(w) ==
  LET seen == worker[w].seen
  IN  /\ Ready(w)
      /\ row' = [u \in Tool |->
                   IF seen[u] # None THEN Embedded(row[u], seen[u]) ELSE row[u]]
      /\ done' = done \cup {worker[w].task}
      /\ Settled(w)
      /\ UNCHANGED <<deleted, index, edited, refused, edits, queue, issued,
                     dead, crashes>>

\* A scan that finds no active tool enqueues nothing and returns.
ScanNothing(w) ==
  /\ At(w, "taken")
  /\ KindOf[worker[w].task] = "scan"
  /\ deleted = Tool
  /\ done' = done \cup {worker[w].task}
  /\ Settled(w)
  /\ UNCHANGED <<store, queue, issued, dead, crashes>>

\* The tasks that are bound and call self.retry.
Retries(t) == KindOf[t] \in {"embeddings", "sync"}

\* Fault: the retry is declared (autoretry_for) and called.
RetryTwice(t, n) == [queue EXCEPT ![<<t, n + 1>>] = @ + 2]

\* Fault: request.retries is not passed on.
RetryFromZero(t, n) == Published(<<t, 0>>)

Retry(t, n) == Published(<<t, n + 1>>)

(* Any step raises: the session is rolled back, self.retry publishes a     *)
(* copy before this message is acknowledged, or gives up.  An upsert that  *)
(* raises may have taken effect.                                           *)
Fail(w) ==
  LET t == worker[w].task
      n == worker[w].retries
  IN  /\ Running(w)
      /\ index' \in {index} \cup
           {[index EXCEPT ![u] = worker[w].seen[u].text] : u \in worker[w].pending}
      /\ IF Retries(t) /\ n < MaxRetries
         THEN queue' = Retry(t, n) /\ dead' = dead
         ELSE queue' = queue /\ dead' = dead \cup {t}
      /\ Settled(w)
      /\ UNCHANGED <<row, deleted, edited, refused, edits, issued, done, crashes>>

Ack(w) ==
  /\ At(w, "settled")
  /\ worker' = [worker EXCEPT ![w] = Idle]
  /\ UNCHANGED <<store, queue, issued, done, dead, crashes>>

Crash(w) ==
  /\ ~At(w, "idle")
  /\ crashes < MaxCrashes
  /\ crashes' = crashes + 1
  /\ queue' = GivenBack(w)
  /\ worker' = [worker EXCEPT ![w] = Idle]
  /\ UNCHANGED <<store, issued, done, dead>>

\* The API: update_tool clears the hash; deprecate_tool.
Edit(u, text) ==
  /\ edits < MaxEdits
  /\ u \notin deleted
  /\ row[u].text # text
  /\ row' = [row EXCEPT ![u] = [text |-> text, hash |-> None, embedding |-> @.embedding]]
  /\ edits' = edits + 1
  /\ edited' = edited \cup {u}
  /\ UNCHANGED <<deleted, index, refused, queue, worker, issued, done, dead, crashes>>

Delete(u) ==
  /\ edits < MaxEdits
  /\ u \notin deleted
  /\ edits' = edits + 1
  /\ deleted' = deleted \cup {u}
  /\ UNCHANGED <<row, index, edited, refused, queue, worker, issued, done, dead, crashes>>

WorkerStep(w) ==
  \/ \E m \in Message : Take(w, m)
  \/ Load(w)
  \/ \E u \in Tool : Upsert(w, u)
  \/ Commit(w)
  \/ ScanNothing(w)
  \/ Fail(w)
  \/ Ack(w)

WorkersStep == \E w \in Worker : WorkerStep(w)

Next ==
  \/ \E t \in Task : Publish(t)
  \/ WorkersStep
  \/ \E w \in Worker : Crash(w)
  \/ \E u \in Tool : Delete(u) \/ \E text \in Text : Edit(u, text)

(* While there is work some worker goes on: the pool replaces a lost       *)
(* process and every external call ends, with an answer or a timeout.      *)
Spec == Init /\ [][Next]_tasksVars /\ WF_tasksVars(WorkersStep)

-----------------------------------------------------------------------------
TypeOK ==
  /\ row \in [Tool -> Row]
  /\ deleted \subseteq Tool /\ edited \subseteq Tool /\ refused \subseteq Tool
  /\ index \in [Tool -> Text \cup {None}]
  /\ queue \in [Message -> Nat]
  /\ worker \in [Worker ->
       [task : Task \cup {NoTask}, retries : 0 .. MaxRetries,
        stage : {"idle", "taken", "loaded", "settled"},
        seen : [Tool -> Row \cup {None}], pending : SUBSET Tool]]
  /\ issued \subseteq Task /\ done \subseteq issued /\ dead \subseteq issued
  /\ crashes \in 0 .. MaxCrashes
  /\ edits \in 0 .. MaxEdits

Queued(t) == \E n \in 0 .. MaxRetries : queue[<<t, n>>] > 0

Outstanding(t) == Queued(t) \/ \E w \in Worker : Running(w) /\ worker[w].task = t

(* At least once: wherever a worker is lost, between the effects of a task *)
(* and its acknowledgement or between the copy self.retry publishes and    *)
(* the acknowledgement of the original, the call is still held by the      *)
(* broker or a worker until it has returned or failed for the last time.   *)
NothingLost == \A t \in issued : Outstanding(t) \/ t \in done \cup dead

Copies(t) ==
  SumFunctionOnSet(queue, {t} \X (0 .. MaxRetries))
    + Cardinality({w \in Worker : Running(w) /\ worker[w].task = t})

(* A call runs twice at a time only because a worker was lost: retries do  *)
(* not multiply its copies.                                                *)
CopiesBounded == \A t \in Task : Copies(t) <= 1 + crashes

(* What an analysis concludes from a stored hash, that the vector is in    *)
(* the index, is true after a batch, whatever failed or crashed in it: of  *)
(* a tool that was not updated meanwhile, and whose document was accepted. *)
HashMeansIndexed ==
  \A u \in Tool \ (edited \cup refused) :
    row[u].hash # None => index[u] = row[u].text

(* A batch that stopped between an upsert and the commit leaves a vector   *)
(* the row does not know of, until it runs again: then a copy of it is     *)
(* still there to run, or it has failed for good.                          *)
HalfDoneIsRetried ==
  \A u \in Tool \ (edited \cup refused \cup deleted) :
    index[u] # row[u].embedding =>
      \E t \in Task : u \in ToolsOf[t] /\ (Outstanding(t) \/ t \in dead)

(* A batch that returned has embedded every tool it was given that is not  *)
(* deleted, whatever overlapped it.                                        *)
DoneMeansEmbedded ==
  \A t \in done : \A u \in ToolsOf[t] \ deleted :
    KindOf[t] = "embeddings" =>
      row[u].embedding # None /\ (index[u] # None \/ u \in refused)

(* Every published call returns or fails for the last time.                *)
EveryCallEnds == \A t \in Task : t \in issued ~> t \in done \cup dead
=============================================================================
