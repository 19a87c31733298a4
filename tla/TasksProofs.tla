----------------------------- MODULE TasksProofs ----------------------------
(***************************************************************************)
(* Proofs about the tasks, for any calls, tools, workers, retries and lost *)
(* workers.                                                                *)
(***************************************************************************)
EXTENDS Tasks, FoldLemmas

Job ==
  [task : Task \cup {NoTask}, retries : 0 .. MaxRetries,
   stage : {"idle", "taken", "loaded", "settled"},
   seen : [Tool -> Row \cup {None}], pending : SUBSET Tool]

\* What the broker holds was published.
QueueOK == \A t \in Task, n \in 0 .. MaxRetries : queue[<<t, n>>] > 0 => t \in issued

(* What a job relies on when it commits.  It has seen the tools of its     *)
(* call that are not deleted; what it has seen and is no longer pending is *)
(* in the index or was refused; an embedding it has seen is still there;   *)
(* and it has seen the only text a tool had that was never updated.        *)
Sound(j) ==
  /\ j.stage # "idle" => j.task \in issued
  /\ j.stage # "loaded" => j.seen = Unread /\ j.pending = {}
  /\ j.stage = "loaded" =>
       /\ KindOf[j.task] = "embeddings"
       /\ \A u \in ToolsOf[j.task] \ deleted : j.seen[u] # None
  /\ j.pending \subseteq ToolsOf[j.task]
  /\ \A u \in j.pending : j.seen[u] # None
  /\ \A u \in Tool : j.seen[u] # None =>
       /\ u \notin j.pending => index[u] # None \/ u \in refused
       /\ j.seen[u].embedding # None => row[u].embedding # None
       /\ u \notin edited => j.seen[u].text = Registered[u]

JobsOK == \A w \in Worker : Sound(worker[w])

(* The copies of a tool that was never updated: there is one text they can *)
(* hold, a row says nothing the index does not, and the index holds what   *)
(* some call was asked to put there.                                       *)
ToolOK(u) ==
  /\ u \notin edited =>
       /\ row[u].text = Registered[u]
       /\ index[u] \in {None, Registered[u]}
       /\ row[u].embedding \in {None, Registered[u]}
  /\ row[u].hash # None => index[u] # None \/ u \in refused
  /\ row[u].embedding # None => index[u] # None \/ u \in refused
  /\ index[u] # None =>
       \E t \in issued : KindOf[t] = "embeddings" /\ u \in ToolsOf[t]

ToolsOK == \A u \in Tool : ToolOK(u)

IInv == TypeOK /\ QueueOK /\ JobsOK /\ ToolsOK /\ NothingLost /\ DoneMeansEmbedded

\* What only ever grows.
Grows ==
  /\ issued \subseteq issued' /\ deleted \subseteq deleted'
  /\ edited \subseteq edited' /\ refused \subseteq refused'
  /\ \A u \in Tool :
       /\ index[u] # None => index'[u] # None
       /\ row[u].embedding # None => row'[u].embedding # None

-----------------------------------------------------------------------------
(* The types of the parts of a worker's job.                               *)
LEMMA JobTypes ==
  ASSUME TypeOK, NEW w \in Worker
  PROVE  /\ worker \in [Worker -> Job]
         /\ worker[w] \in Job
         /\ worker[w].task \in Task \cup {NoTask}
         /\ worker[w].retries \in 0 .. MaxRetries
         /\ worker[w].stage \in {"idle", "taken", "loaded", "settled"}
         /\ worker[w].seen \in [Tool -> Row \cup {None}]
         /\ worker[w].pending \in SUBSET Tool
<1>1. worker \in [Worker -> Job] /\ worker[w] \in Job
  BY DEF TypeOK, Job
<1>. QED BY <1>1 DEF Job

(* A job made from its parts.                                              *)
LEMMA JobAtParts ==
  ASSUME NEW t, NEW n, NEW stage, NEW seen, NEW pending
  PROVE  LET j == JobAt(t, n, stage, seen, pending)
         IN  /\ j.task = t /\ j.retries = n /\ j.stage = stage
             /\ j.seen = seen /\ j.pending = pending
             /\ t \in Task \cup {NoTask} /\ n \in 0 .. MaxRetries
                /\ stage \in {"idle", "taken", "loaded", "settled"}
                /\ seen \in [Tool -> Row \cup {None}] /\ pending \in SUBSET Tool
                => j \in Job
BY DEF JobAt, Job

(* A worker gets another job.                                              *)
LEMMA WorkerSet ==
  ASSUME TypeOK, NEW w \in Worker, NEW j \in Job,
         worker' = [worker EXCEPT ![w] = j]
  PROVE  /\ worker' \in [Worker -> Job]
         /\ worker'[w] = j
         /\ \A v \in Worker : v # w => worker'[v] = worker[v]
BY JobTypes

(* The idle job, and the one that has ended, have seen nothing.            *)
LEMMA EmptyJob ==
  ASSUME NEW t \in Task \cup {NoTask}, NEW n \in 0 .. MaxRetries,
         NEW stage \in {"idle", "taken", "settled"}
  PROVE  JobAt(t, n, stage, Unread, {}) \in Job
<1>1. Unread \in [Tool -> Row \cup {None}]
  BY DEF Unread
<1>. QED BY <1>1, JobAtParts

(* What a job relies on stays true when things only grow.                  *)
LEMMA SoundStays ==
  ASSUME NEW j \in Job, Sound(j), Grows
  PROVE  Sound(j)'
BY DEF Sound, Grows, Job, Unread

(* A job that has seen nothing relies on its call alone.                   *)
LEMMA EmptySound ==
  ASSUME NEW t, NEW n, NEW stage \in {"idle", "taken", "settled"},
         stage # "idle" => t \in issued'
  PROVE  Sound(JobAt(t, n, stage, Unread, {}))'
<1>1. PICK j : j = JobAt(t, n, stage, Unread, {})
  OBVIOUS
<1>2. /\ j.task = t /\ j.stage = stage /\ j.seen = Unread /\ j.pending = {}
      /\ \A u \in Tool : j.seen[u] = None
  BY <1>1, JobAtParts DEF Unread
<1>3. Sound(j)'
  BY <1>2 DEF Sound
<1>. QED BY <1>1, <1>3

(* When one worker takes a step, the jobs of the others stay sound.        *)
LEMMA OtherJobs ==
  ASSUME TypeOK, JobsOK, Grows, NEW w \in Worker, NEW job, Sound(job)',
         worker'[w] = job, \A v \in Worker : v # w => worker'[v] = worker[v]
  PROVE  JobsOK'
<1>. SUFFICES ASSUME NEW v \in Worker PROVE Sound(worker[v])'
  BY DEF JobsOK
<1>1. CASE v = w
  BY <1>1 DEF Sound
<1>2. CASE v # w
  <2>1. PICK j : j = worker[v]
    OBVIOUS
  <2>2. j \in Job /\ Sound(j)
    BY <2>1, JobTypes DEF JobsOK
  <2>3. Sound(j)' /\ j = worker'[v]
    BY <1>2, <2>1, <2>2, SoundStays
  <2>. QED BY <2>3 DEF Sound
<1>. QED BY <1>1, <1>2

(* A step that touches neither the tools nor the workers nor the index.    *)
LEMMA QuietTools ==
  ASSUME ToolsOK, UNCHANGED store, issued \subseteq issued'
  PROVE  ToolsOK' /\ Grows
BY DEF ToolsOK, ToolOK, Grows, store

(* What was done stays done while things only grow.                        *)
LEMMA DoneStays ==
  ASSUME TypeOK, DoneMeansEmbedded, Grows, NEW t \in done, NEW u \in ToolsOf[t] \ deleted',
         KindOf[t] = "embeddings"
  PROVE  row'[u].embedding # None /\ (index'[u] # None \/ u \in refused')
<1>1. u \in Tool /\ u \notin deleted
  BY TasksAssumption DEF TypeOK, Grows
<1>. QED BY <1>1 DEF DoneMeansEmbedded, Grows

(* A row and its columns.                                                  *)
LEMMA RowTypes ==
  ASSUME TypeOK, NEW u \in Tool
  PROVE  /\ row[u] \in Row
         /\ row[u].text \in Text /\ row[u].hash \in Text \cup {None}
         /\ row[u].embedding \in Text \cup {None}
         /\ row[u] # None
<1>1. row[u] \in Row
  BY DEF TypeOK
<1>. QED BY <1>1, NoRowAssumption DEF Row

-----------------------------------------------------------------------------
(* The queue.                                                              *)
LEMMA QueueTypes ==
  ASSUME TypeOK, NEW t \in Task, NEW n \in 0 .. MaxRetries
  PROVE  <<t, n>> \in Message /\ queue \in [Message -> Nat] /\ queue[<<t, n>>] \in Nat
BY DEF TypeOK, Message

(* A copy of a message more: the call is queued, and nothing else changes. *)
LEMMA PublishedQueue ==
  ASSUME TypeOK, NEW t \in Task, NEW n \in 0 .. MaxRetries,
         queue' = Published(<<t, n>>)
  PROVE  /\ queue' \in [Message -> Nat]
         /\ Queued(t)'
         /\ \A u \in Task : Queued(u) => Queued(u)'
         /\ \A u \in Task, k \in 0 .. MaxRetries :
              queue'[<<u, k>>] > 0 => queue[<<u, k>>] > 0 \/ u = t
<1>1. <<t, n>> \in Message /\ queue \in [Message -> Nat]
  BY QueueTypes
<1>2. queue' = [queue EXCEPT ![<<t, n>>] = queue[<<t, n>>] + 1]
  BY DEF Published
<1>3. queue' \in [Message -> Nat]
  BY <1>1, <1>2
<1>4. queue'[<<t, n>>] > 0
  BY <1>1, <1>2
<1>5. ASSUME NEW u \in Task, NEW k \in 0 .. MaxRetries
      PROVE  /\ queue'[<<u, k>>] > 0 => queue[<<u, k>>] > 0 \/ u = t
             /\ queue[<<u, k>>] > 0 => queue'[<<u, k>>] > 0
  <2>1. <<u, k>> \in Message /\ queue[<<u, k>>] \in Nat
    BY QueueTypes
  <2>2. CASE <<u, k>> = <<t, n>>
    BY <1>1, <1>2, <2>1, <2>2
  <2>3. CASE <<u, k>> # <<t, n>>
    BY <1>1, <1>2, <2>1, <2>3
  <2>. QED BY <2>2, <2>3
<1>. QED BY <1>3, <1>4, <1>5 DEF Queued

(* A call that is published is in the queue.                               *)
LEMMA PublishInv ==
  ASSUME IInv, NEW t \in Task, Publish(t)
  PROVE  IInv'
<1>1. /\ issued' = issued \cup {t} /\ queue' = Published(<<t, 0>>)
      /\ UNCHANGED <<store, worker, done, dead, crashes>>
      /\ TypeOK
  BY DEF Publish, IInv
<1>2. 0 \in 0 .. MaxRetries
  BY TasksAssumption
<1>3. /\ queue' \in [Message -> Nat]
      /\ Queued(t)'
      /\ \A u \in Task : Queued(u) => Queued(u)'
      /\ \A u \in Task, k \in 0 .. MaxRetries :
           queue'[<<u, k>>] > 0 => queue[<<u, k>>] > 0 \/ u = t
  BY <1>1, <1>2, PublishedQueue
<1>4. TypeOK'
  BY <1>1, <1>3 DEF TypeOK, store
<1>5. QueueOK'
  BY <1>1, <1>3 DEF IInv, QueueOK
<1>6. ToolsOK' /\ Grows
  BY <1>1, QuietTools DEF IInv
<1>7. JobsOK'
  <2>. SUFFICES ASSUME NEW v \in Worker PROVE Sound(worker[v])'
    BY DEF JobsOK
  <2>1. PICK j : j = worker[v]
    OBVIOUS
  <2>2. Sound(j)' /\ j = worker'[v]
    BY <1>1, <1>6, <2>1, JobTypes, SoundStays DEF IInv, JobsOK
  <2>. QED BY <2>2 DEF Sound
<1>8. NothingLost'
  <2>. SUFFICES ASSUME NEW u \in issued' PROVE Outstanding(u)' \/ u \in done \cup dead
    BY <1>1 DEF NothingLost
  <2>1. CASE u = t
    BY <1>3, <2>1 DEF Outstanding
  <2>2. CASE u \in issued
    BY <1>1, <1>3, <2>2 DEF IInv, NothingLost, Outstanding, Running, TypeOK
  <2>. QED BY <1>1, <2>1, <2>2
<1>9. DoneMeansEmbedded'
  BY <1>1 DEF IInv, DoneMeansEmbedded, store
<1>. QED BY <1>4, <1>5, <1>6, <1>7, <1>8, <1>9 DEF IInv

(* A message that is taken is held by a worker instead of the queue.       *)
LEMMA TakeInv ==
  ASSUME IInv, NEW w \in Worker, NEW m \in Message, Take(w, m)
  PROVE  IInv'
<1>1. PICK t \in Task, n \in 0 .. MaxRetries : m = <<t, n>>
  BY DEF Message
<1>. DEFINE job == JobAt(t, n, "taken", Unread, {})
<1>2. /\ queue[<<t, n>>] > 0
      /\ queue' = [queue EXCEPT ![<<t, n>>] = queue[<<t, n>>] - 1]
      /\ worker' = [worker EXCEPT ![w] = job]
      /\ worker[w].stage = "idle"
      /\ UNCHANGED <<store, issued, done, dead, crashes>>
      /\ TypeOK
  BY <1>1 DEF Take, Held, IInv
<1>3. job \in Job /\ job.task = t /\ job.stage = "taken"
  BY EmptyJob, JobAtParts
<1>4. t \in issued
  BY <1>2 DEF IInv, QueueOK
<1>5. Sound(job)'
  BY <1>2, <1>4, EmptySound
<1>. HIDE DEF job
<1>6. /\ worker' \in [Worker -> Job] /\ worker'[w] = job
      /\ \A v \in Worker : v # w => worker'[v] = worker[v]
  BY <1>2, <1>3, WorkerSet
<1>7. ASSUME NEW u \in Task, NEW k \in 0 .. MaxRetries
      PROVE  /\ queue'[<<u, k>>] > 0 => queue[<<u, k>>] > 0
             /\ <<u, k>> # <<t, n>> => queue'[<<u, k>>] = queue[<<u, k>>]
  <2>1. <<u, k>> \in Message /\ <<t, n>> \in Message /\ queue \in [Message -> Nat]
    BY <1>2, QueueTypes
  <2>2. CASE <<u, k>> = <<t, n>>
    BY <1>2, <2>1, <2>2
  <2>3. CASE <<u, k>> # <<t, n>>
    BY <1>2, <2>1, <2>3
  <2>. QED BY <2>2, <2>3
<1>8. queue' \in [Message -> Nat]
  BY <1>2, QueueTypes
<1>9. TypeOK'
  BY <1>2, <1>6, <1>8 DEF TypeOK, store, Job
<1>10. QueueOK'
  BY <1>2, <1>7 DEF IInv, QueueOK
<1>11. ToolsOK' /\ Grows
  BY <1>2, QuietTools DEF IInv
<1>12. JobsOK'
  BY <1>2, <1>5, <1>6, <1>11, OtherJobs DEF IInv
<1>13. NothingLost'
  <2>. SUFFICES ASSUME NEW u \in issued, ~(u \in done \cup dead) PROVE Outstanding(u)'
    BY <1>2 DEF NothingLost
  <2>1. u \in Task /\ Outstanding(u)
    BY <1>2 DEF IInv, NothingLost, TypeOK
  <2>2. CASE u = t
    BY <1>3, <1>6, <2>2 DEF Outstanding, Running
  <2>3. CASE u # t
    <3>1. Queued(u) => Queued(u)'
      BY <1>7, <2>1, <2>3 DEF Queued
    <3>2. ASSUME NEW v \in Worker, Running(v), worker[v].task = u
          PROVE  Running(v)' /\ worker'[v].task = u
      BY <1>2, <1>6, <3>2 DEF Running
    <3>. QED BY <2>1, <3>1, <3>2 DEF Outstanding
  <2>. QED BY <2>2, <2>3
<1>14. DoneMeansEmbedded'
  BY <1>2 DEF IInv, DoneMeansEmbedded, store
<1>. QED BY <1>9, <1>10, <1>11, <1>12, <1>13, <1>14 DEF IInv

(* A step of one worker loses no call if the worker's own is still held or *)
(* has ended.                                                              *)
LEMMA StillHeld ==
  ASSUME TypeOK, NothingLost, NEW w \in Worker,
         issued' = issued, done \subseteq done', dead \subseteq dead',
         \A t \in Task : Queued(t) => Queued(t)',
         \A v \in Worker : v # w => worker'[v] = worker[v],
         \A t \in Task : Running(w) /\ worker[w].task = t =>
           Queued(t)' \/ (Running(w)' /\ worker'[w].task = t) \/ t \in done' \cup dead'
  PROVE  NothingLost'
<1>. SUFFICES ASSUME NEW t \in issued, t \notin done' \cup dead' PROVE Outstanding(t)'
  BY DEF NothingLost
<1>1. t \in Task /\ Outstanding(t)
  BY DEF NothingLost, TypeOK
<1>2. CASE Queued(t)
  BY <1>1, <1>2 DEF Outstanding
<1>3. ASSUME NEW v \in Worker, Running(v), worker[v].task = t
      PROVE  Outstanding(t)'
  <2>1. CASE v = w
    BY <1>1, <1>3, <2>1 DEF Outstanding
  <2>2. CASE v # w
    <3>1. Running(v)' /\ worker'[v].task = t
      BY <1>3, <2>2 DEF Running
    <3>. QED BY <3>1 DEF Outstanding
  <2>. QED BY <2>1, <2>2
<1>. QED BY <1>1, <1>2, <1>3 DEF Outstanding

(* The queue as it is holds what it held.                                  *)
LEMMA SameQueue ==
  ASSUME queue' = queue
  PROVE  \A t \in Task : Queued(t) => Queued(t)'
BY DEF Queued

(* A batch loads the rows of its tools that are not deleted.               *)
LEMMA LoadInv ==
  ASSUME IInv, NEW w \in Worker, Load(w)
  PROVE  IInv'
<1>. DEFINE t == worker[w].task
            n == worker[w].retries
            live == ToolsOf[t] \ deleted
            seen == [u \in Tool |-> IF u \in live THEN row[u] ELSE None]
<1>. PICK job : job = JobAt(t, n, "loaded", seen, live)
  OBVIOUS
<1>1. /\ worker' = [worker EXCEPT ![w] = job]
      /\ worker[w].stage = "taken"
      /\ KindOf[t] = "embeddings"
      /\ UNCHANGED <<store, queue, issued, done, dead, crashes>>
      /\ TypeOK
  BY DEF Load, At, IInv
<1>2. t \in issued /\ t \in Task /\ n \in 0 .. MaxRetries
  BY <1>1, JobTypes DEF IInv, JobsOK, Sound, TypeOK
<1>3. live \in SUBSET Tool /\ live \subseteq ToolsOf[t]
  BY <1>2, TasksAssumption
<1>4. seen \in [Tool -> Row \cup {None}]
  BY RowTypes DEF IInv
<1>5. \A u \in Tool : /\ u \in live => seen[u] = row[u] /\ seen[u] # None
                      /\ u \notin live => seen[u] = None
  BY <1>1, RowTypes
<1>. HIDE DEF seen, live
<1>6. /\ job \in Job /\ job.task = t /\ job.stage = "loaded"
      /\ job.seen = seen /\ job.pending = live
  BY <1>2, <1>3, <1>4, JobAtParts
<1>7. ToolsOK' /\ Grows
  BY <1>1, QuietTools DEF IInv
<1>8. \A u \in Tool : u \notin edited => row[u].text = Registered[u]
  BY DEF IInv, ToolsOK, ToolOK
<1>9. Sound(job)'
  <2>1. /\ row' = row /\ deleted' = deleted /\ edited' = edited /\ issued' = issued
    BY <1>1 DEF store
  <2>2. \A u \in ToolsOf[job.task] \ deleted' : job.seen[u] # None
    BY <1>3, <1>5, <1>6, <2>1 DEF live
  <2>3. \A u \in Tool : job.seen[u] # None =>
          /\ u \in job.pending
          /\ job.seen[u].embedding # None => row'[u].embedding # None
          /\ u \notin edited' => job.seen[u].text = Registered[u]
    BY <1>5, <1>6, <1>8, <2>1
  <2>4. \A u \in job.pending : job.seen[u] # None
    BY <1>3, <1>5, <1>6
  <2>. QED BY <1>1, <1>2, <1>3, <1>6, <2>1, <2>2, <2>3, <2>4 DEF Sound
<1>10. /\ worker' \in [Worker -> Job] /\ worker'[w] = job
       /\ \A v \in Worker : v # w => worker'[v] = worker[v]
  BY <1>1, <1>6, WorkerSet
<1>11. TypeOK'
  BY <1>1, <1>10 DEF TypeOK, store, Job
<1>12. QueueOK' /\ DoneMeansEmbedded'
  BY <1>1 DEF IInv, QueueOK, DoneMeansEmbedded, store
<1>13. JobsOK'
  BY <1>1, <1>7, <1>9, <1>10, OtherJobs DEF IInv
<1>14. NothingLost'
  BY <1>1, <1>6, <1>10, SameQueue, StillHeld DEF IInv, Running
<1>. QED BY <1>7, <1>11, <1>12, <1>13, <1>14 DEF IInv

(* One document is indexed, or refused.                                    *)
LEMMA UpsertInv ==
  ASSUME IInv, NEW w \in Worker, NEW u \in Tool, Upsert(w, u)
  PROVE  IInv'
<1>. PICK j0 : j0 = worker[w]
  OBVIOUS
<1>. DEFINE job == JobAt(j0.task, j0.retries, "loaded", j0.seen, j0.pending \ {u})
<1>1. /\ worker' = [worker EXCEPT ![w] = job]
      /\ j0.stage = "loaded" /\ u \in j0.pending
      /\ \/ index' = [index EXCEPT ![u] = j0.seen[u].text] /\ refused' = refused
         \/ index' = index /\ refused' = refused \cup {u}
      /\ UNCHANGED <<row, deleted, edited, edits, queue, issued, done, dead, crashes>>
      /\ TypeOK
  BY DEF Upsert, At, IInv
<1>2. /\ j0 \in Job /\ j0.task \in Task \cup {NoTask} /\ j0.retries \in 0 .. MaxRetries
      /\ j0.seen \in [Tool -> Row \cup {None}] /\ j0.pending \in SUBSET Tool
  BY <1>1, JobTypes
<1>3. /\ j0.task \in issued /\ KindOf[j0.task] = "embeddings"
      /\ u \in ToolsOf[j0.task]
      /\ j0.seen[u] # None
      /\ u \notin edited => j0.seen[u].text = Registered[u]
      /\ Sound(j0)
  BY <1>1 DEF IInv, JobsOK, Sound
<1>4. j0.seen[u].text \in Text /\ j0.seen[u].text # None
  <2>1. j0.seen[u] \in Row
    BY <1>2, <1>3
  <2>. QED BY <2>1, TasksAssumption DEF Row
<1>5. /\ job \in Job /\ job.task = j0.task /\ job.stage = "loaded"
      /\ job.seen = j0.seen /\ job.pending = j0.pending \ {u}
  BY <1>2, JobAtParts
<1>. HIDE DEF job
<1>6. /\ index \in [Tool -> Text \cup {None}] /\ refused \subseteq Tool
  BY <1>1 DEF TypeOK
<1>7. /\ index' \in [Tool -> Text \cup {None}] /\ refused' \subseteq Tool
      /\ refused \subseteq refused'
      /\ index'[u] # None \/ u \in refused'
      /\ index'[u] \in {index[u], j0.seen[u].text}
      /\ \A v \in Tool : v # u => index'[v] = index[v]
  BY <1>1, <1>4, <1>6
<1>8. Grows
  BY <1>1, <1>4, <1>7 DEF Grows
<1>9. ToolsOK'
  <2>. SUFFICES ASSUME NEW v \in Tool PROVE ToolOK(v)'
    BY DEF ToolsOK
  <2>1. ToolOK(v)
    BY DEF IInv, ToolsOK
  <2>2. CASE v = u
    BY <1>1, <1>3, <1>7, <2>1, <2>2 DEF ToolOK
  <2>3. CASE v # u
    BY <1>1, <1>7, <2>1, <2>3 DEF ToolOK
  <2>. QED BY <2>2, <2>3
<1>10. Sound(job)'
  <2>1. Sound(j0)'
    BY <1>2, <1>3, <1>8, SoundStays
  <2>. QED BY <1>1, <1>5, <1>7, <2>1 DEF Sound
<1>11. /\ worker' \in [Worker -> Job] /\ worker'[w] = job
       /\ \A v \in Worker : v # w => worker'[v] = worker[v]
  BY <1>1, <1>5, WorkerSet
<1>12. TypeOK'
  BY <1>1, <1>7, <1>11 DEF TypeOK, Job
<1>13. QueueOK'
  BY <1>1 DEF IInv, QueueOK
<1>14. DoneMeansEmbedded'
  BY <1>1, <1>8, DoneStays DEF IInv, DoneMeansEmbedded
<1>15. JobsOK'
  BY <1>1, <1>8, <1>10, <1>11, OtherJobs DEF IInv
<1>16. NothingLost'
  BY <1>1, <1>5, <1>11, SameQueue, StillHeld DEF IInv, Running
<1>. QED BY <1>9, <1>12, <1>13, <1>14, <1>15, <1>16 DEF IInv

(* The commit of a batch: what its session set and did not find set.       *)
LEMMA EmbeddedColumns ==
  ASSUME NEW stored \in Row, NEW seen \in Row
  PROVE  LET new == Embedded(stored, seen)
         IN  /\ new \in Row
             /\ new.text = stored.text
             /\ new.hash \in {stored.hash, seen.text}
             /\ new.embedding \in {stored.embedding, seen.text}
             /\ stored.embedding # None => new.embedding # None
             /\ (seen.embedding # None => stored.embedding # None)
                  => new.embedding # None
<1>. DEFINE new == Embedded(stored, seen)
            h == Col(stored.hash, seen.hash, seen.text)
            e == Col(stored.embedding, seen.embedding, seen.text)
<1>1. /\ stored.text \in Text
      /\ stored.hash \in Text \cup {None} /\ stored.embedding \in Text \cup {None}
      /\ seen.text \in Text /\ seen.text # None
  BY TasksAssumption DEF Row
<1>2. h \in {stored.hash, seen.text} /\ e \in {stored.embedding, seen.text}
  BY DEF Col
<1>3. stored.embedding # None => e # None
  BY <1>1 DEF Col
<1>4. (seen.embedding # None => stored.embedding # None) => e # None
  BY <1>1 DEF Col
<1>5. new = [text |-> stored.text, hash |-> h, embedding |-> e]
  BY DEF Embedded
<1>. HIDE DEF h, e
<1>6. h \in Text \cup {None} /\ e \in Text \cup {None}
  BY <1>1, <1>2
<1>7. new \in Row /\ new.text = stored.text /\ new.hash = h /\ new.embedding = e
  BY <1>1, <1>5, <1>6 DEF Row
<1>. QED BY <1>2, <1>3, <1>4, <1>7

(* When a worker settles its job, it has seen nothing any more.            *)
LEMMA SettledJob ==
  ASSUME TypeOK, JobsOK, NEW w \in Worker, ~At(w, "idle"), Settled(w)
  PROVE  /\ worker' \in [Worker -> Job]
         /\ \A v \in Worker : v # w => worker'[v] = worker[v]
         /\ worker[w].task \in issued
         /\ Grows => JobsOK'
<1>1. PICK t, n : t = worker[w].task /\ n = worker[w].retries
  OBVIOUS
<1>2. t \in issued /\ t \in Task \cup {NoTask} /\ n \in 0 .. MaxRetries
  BY <1>1, JobTypes DEF JobsOK, Sound, At
<1>3. PICK job : job = JobAt(t, n, "settled", Unread, {})
  OBVIOUS
<1>4. worker' = [worker EXCEPT ![w] = job]
  BY <1>1, <1>3 DEF Settled
<1>5. job \in Job
  BY <1>2, <1>3, EmptyJob
<1>6. /\ worker' \in [Worker -> Job] /\ worker'[w] = job
      /\ \A v \in Worker : v # w => worker'[v] = worker[v]
  BY <1>4, <1>5, WorkerSet
<1>7. ASSUME Grows PROVE JobsOK'
  <2>1. t \in issued'
    BY <1>2, <1>7 DEF Grows
  <2>2. Sound(job)'
    BY <1>3, <2>1, EmptySound
  <2>. QED BY <1>6, <1>7, <2>2, OtherJobs
<1>. QED BY <1>1, <1>2, <1>6, <1>7

(* A batch that commits has indexed what it saw.                           *)
LEMMA CommitInv ==
  ASSUME IInv, NEW w \in Worker, Commit(w)
  PROVE  IInv'
<1>1. PICK j : j = worker[w]
  OBVIOUS
<1>2. /\ j.stage = "loaded" /\ j.pending = {}
      /\ row' = [u \in Tool |->
                   IF j.seen[u] # None THEN Embedded(row[u], j.seen[u]) ELSE row[u]]
      /\ done' = done \cup {j.task}
      /\ Settled(w) /\ ~At(w, "idle")
      /\ UNCHANGED <<deleted, index, edited, refused, edits, queue, issued,
                     dead, crashes>>
      /\ TypeOK
  BY <1>1 DEF Commit, Ready, At, IInv
<1>3. j.seen \in [Tool -> Row \cup {None}] /\ Sound(j)
  BY <1>1, <1>2, JobTypes DEF IInv, JobsOK
<1>4. \A u \in Tool : j.seen[u] # None =>
        /\ j.seen[u] \in Row
        /\ index[u] # None \/ u \in refused
        /\ j.seen[u].embedding # None => row[u].embedding # None
        /\ u \notin edited => j.seen[u].text = Registered[u]
  BY <1>2, <1>3 DEF Sound
<1>5. ASSUME NEW u \in Tool
      PROVE  /\ row'[u] \in Row
             /\ row'[u].text = row[u].text
             /\ row'[u].hash # row[u].hash => index[u] # None \/ u \in refused
             /\ row'[u].embedding # row[u].embedding =>
                  /\ index[u] # None \/ u \in refused
                  /\ u \notin edited => row'[u].embedding = Registered[u]
             /\ row[u].embedding # None => row'[u].embedding # None
             /\ j.seen[u] # None => row'[u].embedding # None
  <2>1. CASE j.seen[u] = None
    <3>1. row'[u] = row[u]
      BY <1>2, <2>1
    <3>. QED BY <1>2, <2>1, <3>1, RowTypes
  <2>2. CASE j.seen[u] # None
    <3>1. row'[u] = Embedded(row[u], j.seen[u])
      BY <1>2, <2>2
    <3>2. j.seen[u] \in Row /\ row[u] \in Row
      BY <1>2, <1>4, <2>2, RowTypes
    <3>. QED BY <1>4, <2>2, <3>1, <3>2, EmbeddedColumns
  <2>. QED BY <2>1, <2>2
<1>6. Grows
  BY <1>2, <1>5 DEF Grows
<1>7. ToolsOK'
  <2>. SUFFICES ASSUME NEW u \in Tool PROVE ToolOK(u)'
    BY DEF ToolsOK
  <2>1. ToolOK(u)
    BY DEF IInv, ToolsOK
  <2>. QED BY <1>2, <1>5, <2>1 DEF ToolOK
<1>8. /\ worker' \in [Worker -> Job]
      /\ \A v \in Worker : v # w => worker'[v] = worker[v]
      /\ j.task \in issued
      /\ JobsOK'
  BY <1>1, <1>2, <1>6, SettledJob DEF IInv
<1>9. row' \in [Tool -> Row]
  BY <1>2, <1>5
<1>10. TypeOK'
  BY <1>2, <1>8, <1>9 DEF TypeOK, Job
<1>11. QueueOK'
  BY <1>2 DEF IInv, QueueOK
<1>12. NothingLost'
  BY <1>1, <1>2, <1>8, SameQueue, StillHeld DEF IInv
<1>13. DoneMeansEmbedded'
  <2>. SUFFICES ASSUME NEW t \in done', NEW u \in ToolsOf[t] \ deleted',
                       KindOf[t] = "embeddings"
                PROVE  row'[u].embedding # None /\ (index'[u] # None \/ u \in refused')
    BY DEF DoneMeansEmbedded
  <2>1. CASE t \in done
    BY <1>2, <1>6, <2>1, DoneStays DEF IInv
  <2>2. CASE t = j.task
    <3>1. u \in Tool /\ u \in ToolsOf[j.task] \ deleted
      BY <1>2, <1>8, <2>2, TasksAssumption DEF TypeOK
    <3>2. j.seen[u] # None
      BY <1>2, <1>3, <3>1 DEF Sound
    <3>. QED BY <1>2, <1>4, <1>5, <3>1, <3>2
  <2>. QED BY <1>2, <2>1, <2>2
<1>. QED BY <1>7, <1>8, <1>10, <1>11, <1>12, <1>13 DEF IInv

(* A scan that finds no tool returns.                                      *)
LEMMA ScanNothingInv ==
  ASSUME IInv, NEW w \in Worker, ScanNothing(w)
  PROVE  IInv'
<1>1. PICK t : t = worker[w].task
  OBVIOUS
<1>2. /\ KindOf[t] = "scan" /\ done' = done \cup {t}
      /\ Settled(w) /\ ~At(w, "idle")
      /\ UNCHANGED <<store, queue, issued, dead, crashes>>
      /\ TypeOK
  BY <1>1 DEF ScanNothing, At, IInv
<1>3. ToolsOK' /\ Grows
  BY <1>2, QuietTools DEF IInv
<1>4. /\ worker' \in [Worker -> Job]
      /\ \A v \in Worker : v # w => worker'[v] = worker[v]
      /\ t \in issued
      /\ JobsOK'
  BY <1>1, <1>2, <1>3, SettledJob DEF IInv
<1>5. TypeOK'
  BY <1>2, <1>4 DEF TypeOK, Job, store
<1>6. QueueOK'
  BY <1>2 DEF IInv, QueueOK
<1>7. NothingLost'
  BY <1>1, <1>2, <1>4, SameQueue, StillHeld DEF IInv
<1>8. DoneMeansEmbedded'
  BY <1>2 DEF IInv, DoneMeansEmbedded, store
<1>. QED BY <1>3, <1>4, <1>5, <1>6, <1>7, <1>8 DEF IInv

(* A task that fails may have indexed one more document; it is queued      *)
(* again before it is acknowledged, or it has failed for good.             *)
LEMMA FailInv ==
  ASSUME IInv, NEW w \in Worker, Fail(w)
  PROVE  IInv'
<1>1. PICK j : j = worker[w]
  OBVIOUS
<1>2. /\ j.stage \in {"taken", "loaded"} /\ Running(w)
      /\ index' \in {index} \cup {[index EXCEPT ![u] = j.seen[u].text] : u \in j.pending}
      /\ \/ /\ queue' = Published(<<j.task, j.retries + 1>>)
            /\ j.retries < MaxRetries
            /\ dead' = dead
         \/ queue' = queue /\ dead' = dead \cup {j.task}
      /\ Settled(w) /\ ~At(w, "idle")
      /\ UNCHANGED <<row, deleted, edited, refused, edits, issued, done, crashes>>
      /\ TypeOK
  BY <1>1 DEF Fail, Running, At, Retry, IInv
<1>3. /\ j.seen \in [Tool -> Row \cup {None}] /\ j.retries \in 0 .. MaxRetries
      /\ j.pending \in SUBSET Tool /\ Sound(j)
      /\ j.task \in issued /\ j.task \in Task
  <2>1. Sound(j)
    BY <1>1 DEF IInv, JobsOK
  <2>. QED BY <1>1, <1>2, <2>1, JobTypes DEF Sound, TypeOK
<1>4. \A u \in j.pending :
        /\ KindOf[j.task] = "embeddings" /\ u \in ToolsOf[j.task]
        /\ j.seen[u].text \in Text /\ j.seen[u].text # None
        /\ u \notin edited => j.seen[u].text = Registered[u]
  <2>. SUFFICES ASSUME NEW u \in j.pending
                PROVE  /\ KindOf[j.task] = "embeddings" /\ u \in ToolsOf[j.task]
                       /\ j.seen[u].text \in Text /\ j.seen[u].text # None
                       /\ u \notin edited => j.seen[u].text = Registered[u]
    OBVIOUS
  <2>1. u \in Tool /\ j.seen[u] # None /\ j.stage = "loaded"
    BY <1>2, <1>3 DEF Sound
  <2>2. j.seen[u] \in Row
    BY <1>3, <2>1
  <2>. QED BY <1>3, <2>1, <2>2, TasksAssumption DEF Sound, Row
<1>5. index \in [Tool -> Text \cup {None}]
  BY <1>2 DEF TypeOK
<1>6. /\ index' \in [Tool -> Text \cup {None}]
      /\ \A u \in Tool :
           \/ index'[u] = index[u]
           \/ u \in j.pending /\ index'[u] = j.seen[u].text
  <2>1. CASE index' = index
    BY <1>5, <2>1
  <2>2. CASE index' # index
    <3>1. PICK u \in j.pending : index' = [index EXCEPT ![u] = j.seen[u].text]
      BY <1>2, <2>2
    <3>. QED BY <1>3, <1>4, <1>5, <3>1
  <2>. QED BY <2>1, <2>2
<1>7. Grows
  BY <1>2, <1>4, <1>6 DEF Grows
<1>8. ToolsOK'
  <2>. SUFFICES ASSUME NEW u \in Tool PROVE ToolOK(u)'
    BY DEF ToolsOK
  <2>1. ToolOK(u)
    BY DEF IInv, ToolsOK
  <2>2. CASE index'[u] = index[u]
    BY <1>2, <2>1, <2>2 DEF ToolOK
  <2>3. CASE u \in j.pending /\ index'[u] = j.seen[u].text
    BY <1>2, <1>3, <1>4, <2>1, <2>3 DEF ToolOK
  <2>. QED BY <1>6, <2>2, <2>3
<1>9. /\ worker' \in [Worker -> Job]
      /\ \A v \in Worker : v # w => worker'[v] = worker[v]
      /\ JobsOK'
  BY <1>1, <1>2, <1>7, SettledJob DEF IInv
<1>10. /\ queue' \in [Message -> Nat]
       /\ \A t \in Task : Queued(t) => Queued(t)'
       /\ Queued(j.task)' \/ j.task \in dead'
       /\ \A t \in Task, k \in 0 .. MaxRetries :
            queue'[<<t, k>>] > 0 => queue[<<t, k>>] > 0 \/ t = j.task
       /\ dead \subseteq dead' /\ dead' \subseteq issued
  <2>1. CASE queue' = Published(<<j.task, j.retries + 1>>) /\ j.retries < MaxRetries
             /\ dead' = dead
    <3>1. j.retries + 1 \in 0 .. MaxRetries
      BY <1>3, <2>1, TasksAssumption
    <3>. QED BY <1>2, <1>3, <2>1, <3>1, PublishedQueue DEF TypeOK
  <2>2. CASE queue' = queue /\ dead' = dead \cup {j.task}
    BY <1>2, <1>3, <2>2, SameQueue DEF TypeOK
  <2>. QED BY <1>2, <2>1, <2>2
<1>11. TypeOK'
  BY <1>2, <1>6, <1>9, <1>10 DEF TypeOK, Job
<1>12. QueueOK'
  BY <1>2, <1>3, <1>10 DEF IInv, QueueOK
<1>13. NothingLost'
  BY <1>1, <1>2, <1>9, <1>10, StillHeld DEF IInv
<1>14. DoneMeansEmbedded'
  BY <1>2, <1>7, DoneStays DEF IInv, DoneMeansEmbedded
<1>. QED BY <1>8, <1>9, <1>11, <1>12, <1>13, <1>14 DEF IInv

(* A worker that becomes idle.                                             *)
LEMMA IdleJob ==
  ASSUME TypeOK, JobsOK, NEW w \in Worker, worker' = [worker EXCEPT ![w] = Idle]
  PROVE  /\ worker' \in [Worker -> Job]
         /\ \A v \in Worker : v # w => worker'[v] = worker[v]
         /\ Grows => JobsOK'
<1>1. PICK job : job = JobAt(NoTask, 0, "idle", Unread, {})
  OBVIOUS
<1>2. job \in Job
  BY <1>1, EmptyJob, TasksAssumption
<1>3. worker' = [worker EXCEPT ![w] = job]
  BY <1>1 DEF Idle
<1>4. /\ worker' \in [Worker -> Job] /\ worker'[w] = job
      /\ \A v \in Worker : v # w => worker'[v] = worker[v]
  BY <1>2, <1>3, WorkerSet
<1>5. Sound(job)'
  BY <1>1, EmptySound
<1>. QED BY <1>4, <1>5, OtherJobs

(* A message that is acknowledged has returned or failed for good.         *)
LEMMA AckInv ==
  ASSUME IInv, NEW w \in Worker, Ack(w)
  PROVE  IInv'
<1>1. /\ ~Running(w) /\ worker' = [worker EXCEPT ![w] = Idle]
      /\ UNCHANGED <<store, queue, issued, done, dead, crashes>>
      /\ TypeOK
  BY DEF Ack, At, Running, IInv
<1>2. ToolsOK' /\ Grows
  BY <1>1, QuietTools DEF IInv
<1>3. /\ worker' \in [Worker -> Job]
      /\ \A v \in Worker : v # w => worker'[v] = worker[v]
      /\ JobsOK'
  BY <1>1, <1>2, IdleJob DEF IInv
<1>4. TypeOK'
  BY <1>1, <1>3 DEF TypeOK, Job, store
<1>5. QueueOK' /\ DoneMeansEmbedded'
  BY <1>1 DEF IInv, QueueOK, DoneMeansEmbedded, store
<1>6. NothingLost'
  BY <1>1, <1>3, SameQueue, StillHeld DEF IInv
<1>. QED BY <1>2, <1>3, <1>4, <1>5, <1>6 DEF IInv

(* What a lost worker held goes back to the queue.                         *)
LEMMA CrashInv ==
  ASSUME IInv, NEW w \in Worker, Crash(w)
  PROVE  IInv'
<1>1. PICK t, n : t = worker[w].task /\ n = worker[w].retries
  OBVIOUS
<1>2. /\ ~At(w, "idle") /\ worker' = [worker EXCEPT ![w] = Idle]
      /\ queue' = Published(<<t, n>>)
      /\ crashes < MaxCrashes /\ crashes' = crashes + 1
      /\ UNCHANGED <<store, issued, done, dead>>
      /\ TypeOK
  BY <1>1 DEF Crash, GivenBack, IInv
<1>3. t \in issued /\ t \in Task /\ n \in 0 .. MaxRetries
  BY <1>1, <1>2, JobTypes DEF IInv, JobsOK, Sound, At, TypeOK
<1>4. ToolsOK' /\ Grows
  BY <1>2, QuietTools DEF IInv
<1>5. /\ worker' \in [Worker -> Job]
      /\ \A v \in Worker : v # w => worker'[v] = worker[v]
      /\ JobsOK'
  BY <1>2, <1>4, IdleJob DEF IInv
<1>6. /\ queue' \in [Message -> Nat]
      /\ Queued(t)'
      /\ \A u \in Task : Queued(u) => Queued(u)'
      /\ \A u \in Task, k \in 0 .. MaxRetries :
           queue'[<<u, k>>] > 0 => queue[<<u, k>>] > 0 \/ u = t
  BY <1>2, <1>3, PublishedQueue
<1>7. crashes' \in 0 .. MaxCrashes
  BY <1>2, TasksAssumption DEF TypeOK
<1>8. TypeOK'
  BY <1>2, <1>5, <1>6, <1>7 DEF TypeOK, Job, store
<1>9. QueueOK'
  BY <1>2, <1>3, <1>6 DEF IInv, QueueOK
<1>10. NothingLost'
  BY <1>1, <1>2, <1>5, <1>6, StillHeld DEF IInv
<1>11. DoneMeansEmbedded'
  BY <1>2 DEF IInv, DoneMeansEmbedded, store
<1>. QED BY <1>4, <1>5, <1>8, <1>9, <1>10, <1>11 DEF IInv

(* The workers go on with what they hold when the API writes.              *)
LEMMA JobsGoOn ==
  ASSUME TypeOK, JobsOK, Grows, worker' = worker
  PROVE  JobsOK'
<1>. SUFFICES ASSUME NEW v \in Worker PROVE Sound(worker[v])'
  BY DEF JobsOK
<1>1. PICK j : j = worker[v]
  OBVIOUS
<1>2. Sound(j)' /\ j = worker'[v]
  BY <1>1, JobTypes, SoundStays DEF JobsOK
<1>. QED BY <1>2 DEF Sound

(* So do the calls.                                                        *)
LEMMA CallsGoOn ==
  ASSUME NothingLost, UNCHANGED <<queue, worker, issued, done, dead>>
  PROVE  NothingLost'
BY DEF NothingLost, Outstanding, Queued, Running

(* An update clears the hash of a tool and leaves its embedding.           *)
LEMMA EditInv ==
  ASSUME IInv, NEW u \in Tool, NEW text \in Text, Edit(u, text)
  PROVE  IInv'
<1>. DEFINE new == [text |-> text, hash |-> None, embedding |-> row[u].embedding]
<1>1. /\ row' = [row EXCEPT ![u] = new]
      /\ edits < MaxEdits /\ edits' = edits + 1 /\ edited' = edited \cup {u}
      /\ UNCHANGED <<deleted, index, refused, queue, worker, issued, done, dead, crashes>>
      /\ TypeOK
  BY DEF Edit, IInv
<1>2. /\ new \in Row /\ new.hash = None /\ new.embedding = row[u].embedding
  BY <1>1, RowTypes DEF Row
<1>. HIDE DEF new
<1>3. /\ row \in [Tool -> Row] /\ row' \in [Tool -> Row] /\ row'[u] = new
      /\ \A v \in Tool : v # u => row'[v] = row[v]
  BY <1>1, <1>2 DEF TypeOK
<1>4. edits' \in 0 .. MaxEdits
  BY <1>1, TasksAssumption DEF TypeOK
<1>5. TypeOK'
  BY <1>1, <1>3, <1>4 DEF TypeOK
<1>6. Grows
  BY <1>1, <1>2, <1>3 DEF Grows
<1>7. ToolsOK'
  <2>. SUFFICES ASSUME NEW v \in Tool PROVE ToolOK(v)'
    BY DEF ToolsOK
  <2>1. ToolOK(v)
    BY DEF IInv, ToolsOK
  <2>2. CASE v = u
    BY <1>1, <1>2, <1>3, <2>1, <2>2 DEF ToolOK
  <2>3. CASE v # u
    BY <1>1, <1>3, <2>1, <2>3 DEF ToolOK
  <2>. QED BY <2>2, <2>3
<1>8. JobsOK' /\ NothingLost'
  BY <1>1, <1>6, JobsGoOn, CallsGoOn DEF IInv
<1>9. QueueOK'
  BY <1>1 DEF IInv, QueueOK
<1>10. DoneMeansEmbedded'
  BY <1>1, <1>6, DoneStays DEF IInv, DoneMeansEmbedded
<1>. QED BY <1>5, <1>7, <1>8, <1>9, <1>10 DEF IInv

(* A deprecated tool is no longer asked for.                               *)
LEMMA DeleteInv ==
  ASSUME IInv, NEW u \in Tool, Delete(u)
  PROVE  IInv'
<1>1. /\ edits < MaxEdits /\ edits' = edits + 1 /\ deleted' = deleted \cup {u}
      /\ UNCHANGED <<row, index, edited, refused, queue, worker, issued, done,
                     dead, crashes>>
      /\ TypeOK
  BY DEF Delete, IInv
<1>2. edits' \in 0 .. MaxEdits
  BY <1>1, TasksAssumption DEF TypeOK
<1>3. TypeOK'
  BY <1>1, <1>2 DEF TypeOK
<1>4. Grows
  BY <1>1 DEF Grows
<1>5. ToolsOK' /\ QueueOK'
  BY <1>1 DEF IInv, ToolsOK, ToolOK, QueueOK
<1>6. JobsOK' /\ NothingLost'
  BY <1>1, <1>4, JobsGoOn, CallsGoOn DEF IInv
<1>7. DoneMeansEmbedded'
  BY <1>1 DEF IInv, DoneMeansEmbedded
<1>. QED BY <1>3, <1>5, <1>6, <1>7 DEF IInv

(* Nothing is published and nobody works.                                  *)
LEMMA InitInv == Init => IInv
<1>. SUFFICES ASSUME Init PROVE IInv
  OBVIOUS
<1>1. PICK job : job = JobAt(NoTask, 0, "idle", Unread, {})
  OBVIOUS
<1>2. /\ job \in Job /\ job.stage = "idle" /\ job.seen = Unread /\ job.pending = {}
      /\ \A u \in Tool : job.seen[u] = None
  BY <1>1, EmptyJob, JobAtParts, TasksAssumption DEF Unread
<1>3. /\ row = [u \in Tool |-> [text |-> Registered[u], hash |-> None, embedding |-> None]]
      /\ deleted \in SUBSET Tool
      /\ index = [u \in Tool |-> None]
      /\ queue = [m \in Message |-> 0]
      /\ worker = [w \in Worker |-> job]
      /\ issued = {} /\ done = {} /\ dead = {}
      /\ crashes = 0 /\ edits = 0 /\ edited = {} /\ refused = {}
  BY <1>1 DEF Init, Idle
<1>4. ASSUME NEW u \in Tool
      PROVE  /\ row[u] \in Row
             /\ row[u].text = Registered[u] /\ row[u].hash = None
             /\ row[u].embedding = None
  <2>1. Registered[u] \in Text
    BY TasksAssumption
  <2>. QED BY <1>3, <2>1 DEF Row
<1>5. row \in [Tool -> Row]
  BY <1>3, <1>4
<1>6. 0 \in 0 .. MaxCrashes /\ 0 \in 0 .. MaxEdits
  BY TasksAssumption
<1>7. TypeOK
  BY <1>2, <1>3, <1>5, <1>6 DEF TypeOK, Job
<1>8. QueueOK
  BY <1>3 DEF QueueOK, Message
<1>9. JobsOK
  BY <1>2, <1>3 DEF JobsOK, Sound
<1>10. ToolsOK
  BY <1>3, <1>4 DEF ToolsOK, ToolOK
<1>11. NothingLost /\ DoneMeansEmbedded
  BY <1>3 DEF NothingLost, DoneMeansEmbedded
<1>. QED BY <1>7, <1>8, <1>9, <1>10, <1>11 DEF IInv

(* Every step keeps the invariant.                                         *)
LEMMA NextInv == IInv /\ [Next]_tasksVars => IInv'
<1>. SUFFICES ASSUME IInv, [Next]_tasksVars PROVE IInv'
  OBVIOUS
<1>1. ASSUME NEW t \in Task, Publish(t) PROVE IInv'
  BY <1>1, PublishInv
<1>2. ASSUME NEW w \in Worker, WorkerStep(w) PROVE IInv'
  <2>1. ASSUME NEW m \in Message, Take(w, m) PROVE IInv'
    BY <2>1, TakeInv
  <2>2. ASSUME NEW u \in Tool, Upsert(w, u) PROVE IInv'
    BY <2>2, UpsertInv
  <2>. QED BY <1>2, <2>1, <2>2, LoadInv, CommitInv, ScanNothingInv, FailInv, AckInv
           DEF WorkerStep
<1>3. ASSUME NEW w \in Worker, Crash(w) PROVE IInv'
  BY <1>3, CrashInv
<1>4. ASSUME NEW u \in Tool, Delete(u) PROVE IInv'
  BY <1>4, DeleteInv
<1>5. ASSUME NEW u \in Tool, NEW text \in Text, Edit(u, text) PROVE IInv'
  BY <1>5, EditInv
<1>6. CASE UNCHANGED tasksVars
  <2>1. /\ UNCHANGED <<store, queue, worker, issued, done, dead, crashes>> /\ TypeOK
    BY <1>6 DEF tasksVars, store, IInv
  <2>2. TypeOK' /\ QueueOK' /\ DoneMeansEmbedded'
    BY <2>1 DEF IInv, TypeOK, QueueOK, DoneMeansEmbedded, store
  <2>3. ToolsOK' /\ Grows
    BY <2>1, QuietTools DEF IInv
  <2>4. JobsOK' /\ NothingLost'
    BY <2>1, <2>3, JobsGoOn, CallsGoOn DEF IInv
  <2>. QED BY <2>2, <2>3, <2>4 DEF IInv
<1>. QED BY <1>1, <1>2, <1>3, <1>4, <1>5, <1>6 DEF Next, WorkersStep

-----------------------------------------------------------------------------
(* Tools, index, queue and workers keep their types.                       *)
THEOREM TasksTypeCorrect == Spec => []TypeOK
<1>1. IInv => TypeOK
  BY DEF IInv
<1>. QED BY <1>1, InitInv, NextInv, PTL DEF Spec

(* However many workers are lost, a published call is held by the broker   *)
(* or a worker until it has returned or failed for good.                   *)
THEOREM NoCallIsLost == Spec => []NothingLost
<1>1. IInv => NothingLost
  BY DEF IInv
<1>. QED BY <1>1, InitInv, NextInv, PTL DEF Spec

(* A stored hash means that the index holds the tool's text, whatever      *)
(* batches overlap, fail or are repeated: if the tool was not updated and  *)
(* the index accepted it.                                                  *)
THEOREM HashIsIndexed == Spec => []HashMeansIndexed
<1>1. IInv => HashMeansIndexed
  <2>. SUFFICES ASSUME IInv, NEW u \in Tool \ (edited \cup refused), row[u].hash # None
                PROVE  index[u] = row[u].text
    BY DEF HashMeansIndexed
  <2>. QED BY DEF IInv, ToolsOK, ToolOK
<1>. QED BY <1>1, InitInv, NextInv, PTL DEF Spec

(* A batch that returned has embedded all its tools.                       *)
THEOREM DoneIsEmbedded == Spec => []DoneMeansEmbedded
<1>1. IInv => DoneMeansEmbedded
  BY DEF IInv
<1>. QED BY <1>1, InitInv, NextInv, PTL DEF Spec

(* Where index and row differ, the call that made them differ did not      *)
(* return, so that it is still to be run or has failed for good.           *)
THEOREM HalfDoneRunsAgain == Spec => []HalfDoneIsRetried
<1>1. IInv => HalfDoneIsRetried
  <2>. SUFFICES ASSUME IInv, NEW u \in Tool \ (edited \cup refused \cup deleted),
                       index[u] # row[u].embedding
                PROVE  \E t \in Task : u \in ToolsOf[t] /\ (Outstanding(t) \/ t \in dead)
    BY DEF HalfDoneIsRetried
  <2>1. ToolOK(u)
    BY DEF IInv, ToolsOK
  <2>2. index[u] # None /\ row[u].embedding = None
    BY <2>1 DEF ToolOK
  <2>3. PICK t \in issued : KindOf[t] = "embeddings" /\ u \in ToolsOf[t]
    BY <2>1, <2>2 DEF ToolOK
  <2>4. t \notin done
    BY <2>2, <2>3 DEF IInv, DoneMeansEmbedded
  <2>5. t \in Task /\ (Outstanding(t) \/ t \in dead)
    BY <2>4 DEF IInv, NothingLost, TypeOK
  <2>. QED BY <2>3, <2>5
<1>. QED BY <1>1, InitInv, NextInv, PTL DEF Spec

-----------------------------------------------------------------------------
(* The copies of a call, in the queue and on the workers.                  *)
Of(t) == {t} \X (0 .. MaxRetries)

Holders(t) == {w \in Worker : Running(w) /\ worker[w].task = t}

CopiesInv == IInv /\ CopiesBounded

(* Both are finite.                                                        *)
LEMMA CopiesTypes ==
  ASSUME NEW t \in Task, NEW q \in [Message -> Nat]
  PROVE  /\ IsFiniteSet(Of(t)) /\ InNat(q, Of(t))
         /\ SumFunctionOnSet(q, Of(t)) \in Nat
<1>1. IsFiniteSet({t}) /\ IsFiniteSet(0 .. MaxRetries)
  <2>1. 0 \in Int /\ MaxRetries \in Int
    BY TasksAssumption
  <2>. QED BY <2>1, FS_Singleton, FS_Interval
<1>2. IsFiniteSet(Of(t))
  BY <1>1, FS_Product DEF Of
<1>3. InNat(q, Of(t))
  BY DEF InNat, Of, Message
<1>. QED BY <1>2, <1>3, SumFacts

(* So many workers.                                                        *)
LEMMA FewerHolders ==
  ASSUME NEW old \in SUBSET Worker, NEW new \in SUBSET old
  PROVE  /\ IsFiniteSet(old)
         /\ Cardinality(old) \in Nat /\ Cardinality(new) \in Nat
         /\ Cardinality(new) <= Cardinality(old)
         /\ \A w \in old : /\ Cardinality(old \ {w}) = Cardinality(old) - 1
                           /\ w \notin new => Cardinality(new) <= Cardinality(old) - 1
<1>1. IsFiniteSet(old) /\ IsFiniteSet(new) /\ Cardinality(new) <= Cardinality(old)
  BY FS_Subset, WorkerAssumption
<1>2. Cardinality(old) \in Nat /\ Cardinality(new) \in Nat
  BY <1>1, FS_CardinalityType
<1>3. ASSUME NEW w \in old
      PROVE  /\ Cardinality(old \ {w}) = Cardinality(old) - 1
             /\ w \notin new => Cardinality(new) <= Cardinality(old) - 1
  <2>1. IsFiniteSet(old \ {w}) /\ Cardinality(old \ {w}) = Cardinality(old) - 1
    BY <1>1, FS_RemoveElement
  <2>2. ASSUME w \notin new PROVE Cardinality(new) <= Cardinality(old \ {w})
    <3>1. new \in SUBSET (old \ {w})
      BY <2>2
    <3>. QED BY <2>1, <3>1, FS_Subset
  <2>. QED BY <2>1, <2>2
<1>. QED BY <1>1, <1>2, <1>3

(* A message whose number of copies changes.                               *)
LEMMA QueueChanges ==
  ASSUME NEW q \in [Message -> Nat], NEW new \in [Message -> Nat],
         NEW t \in Task, NEW m \in Of(t),
         \A x \in Message : x # m => new[x] = q[x]
  PROVE  /\ SumFunctionOnSet(new, Of(t)) + q[m] = SumFunctionOnSet(q, Of(t)) + new[m]
         /\ \A u \in Task : u # t => SumFunctionOnSet(new, Of(u)) = SumFunctionOnSet(q, Of(u))
<1>1. PICK n \in 0 .. MaxRetries : m = <<t, n>>
  BY DEF Of
<1>2. m \in Message
  BY <1>1 DEF Message
<1>3. new[m] \in Nat
  BY <1>2
<1>4. SumFunctionOnSet(new, Of(t)) + q[m] = SumFunctionOnSet(q, Of(t)) + new[m]
  <2>1. IsFiniteSet(Of(t)) /\ InNat(q, Of(t))
    BY CopiesTypes
  <2>2. \A x \in Of(t) \ {m} : new[x] = q[x]
    BY DEF Of, Message
  <2>3. PICK all : all = Of(t)
    OBVIOUS
  <2>4. /\ IsFiniteSet(all) /\ InNat(q, all) /\ m \in all /\ new[m] \in Nat
        /\ \A x \in all \ {m} : new[x] = q[x]
    BY <1>3, <2>1, <2>2, <2>3
  <2>5. SumFunctionOnSet(new, all) + q[m] = SumFunctionOnSet(q, all) + new[m]
    BY ONLY <2>4, SumChangesAtOne
  <2>. QED BY <2>3, <2>5
<1>5. ASSUME NEW u \in Task, u # t
      PROVE  SumFunctionOnSet(new, Of(u)) = SumFunctionOnSet(q, Of(u))
  <2>1. /\ IsFiniteSet(Of(u)) /\ InNat(q, Of(u)) /\ InNat(new, Of(u))
        /\ SumFunctionOnSet(q, Of(u)) \in Nat /\ SumFunctionOnSet(new, Of(u)) \in Nat
    BY CopiesTypes
  <2>2. \A x \in Of(u) : new[x] = q[x] /\ q[x] \in Nat
    BY <1>1, <1>5 DEF Of, Message
  <2>3. (\A x \in Of(u) : new[x] <= q[x]) /\ (\A x \in Of(u) : q[x] <= new[x])
    BY <2>2
  <2>4. Of(u) \in SUBSET Of(u)
    OBVIOUS
  <2>5. SumFunctionOnSet(new, Of(u)) <= SumFunctionOnSet(q, Of(u))
    BY <2>1, <2>3, <2>4, SumGrows
  <2>6. SumFunctionOnSet(q, Of(u)) <= SumFunctionOnSet(new, Of(u))
    BY <2>1, <2>3, <2>4, SumGrows
  <2>. QED BY <2>1, <2>5, <2>6
<1>. QED BY <1>4, <1>5

(* A call that was not published has no copies.                            *)
LEMMA NotPublished ==
  ASSUME IInv, NEW t \in Task, t \notin issued
  PROVE  SumFunctionOnSet(queue, Of(t)) = 0 /\ Holders(t) = {}
<1>1. queue \in [Message -> Nat]
  BY DEF IInv, TypeOK
<1>2. ASSUME NEW x \in Of(t) PROVE queue[x] = 0
  <2>1. PICK n \in 0 .. MaxRetries : x = <<t, n>>
    BY DEF Of
  <2>2. queue[x] \in Nat /\ ~(queue[x] > 0)
    BY <1>1, <2>1 DEF IInv, QueueOK, Message
  <2>. QED BY <2>2
<1>3. Holders(t) = {}
  BY DEF Holders, IInv, JobsOK, Sound, Running
<1>. QED BY <1>1, <1>2, <1>3, CopiesTypes, SumOfZeros

(* A step that gives no worker a call, and the queue no message.           *)
LEMMA NoMoreCopies ==
  ASSUME TypeOK, CopiesBounded, queue' = queue, crashes' = crashes,
         \A u \in Task : Holders(u)' \subseteq Holders(u)
  PROVE  CopiesBounded'
<1>. SUFFICES ASSUME NEW u \in Task PROVE Copies(u)' <= 1 + crashes'
  BY DEF CopiesBounded
<1>1. PICK old, new, sum : /\ old = Holders(u) /\ new = Holders(u)'
                           /\ sum = SumFunctionOnSet(queue, Of(u))
  OBVIOUS
<1>2. old \in SUBSET Worker /\ new \in SUBSET old
  BY <1>1 DEF Holders
<1>3. /\ Cardinality(old) \in Nat /\ Cardinality(new) \in Nat
      /\ Cardinality(new) <= Cardinality(old)
  BY <1>2, FewerHolders
<1>4. sum \in Nat /\ crashes \in Nat
  BY <1>1, CopiesTypes DEF TypeOK
<1>5. sum + Cardinality(old) <= 1 + crashes
  BY <1>1 DEF CopiesBounded, Copies, Of, Holders
<1>6. Copies(u)' = sum + Cardinality(new)
  BY <1>1 DEF Copies, Of, Holders
<1>. QED BY <1>3, <1>4, <1>5, <1>6

(* Copies of one call that move: a message less and a worker more, a       *)
(* message more and a worker less, or a message more and a crash more.     *)
Moves(t, m) ==
  /\ queue' \in [Message -> Nat]
  /\ \A x \in Message : x # m => queue'[x] = queue[x]
  /\ crashes' \in Nat /\ crashes <= crashes'
  /\ \A u \in Task : u # t => Holders(u)' \subseteq Holders(u)
  /\ Cardinality(Holders(t)') \in Nat
  /\ queue'[m] + Cardinality(Holders(t)') + crashes
       <= queue[m] + Cardinality(Holders(t)) + crashes'

(* They stay within the bound.                                             *)
LEMMA CopiesMove ==
  ASSUME TypeOK, CopiesBounded, NEW t \in Task, NEW m \in Of(t), Moves(t, m)
  PROVE  CopiesBounded'
<1>. SUFFICES ASSUME NEW u \in Task PROVE Copies(u)' <= 1 + crashes'
  BY DEF CopiesBounded
<1>1. PICK q, q1, old, new, sum, sum1 :
        /\ q = queue /\ q1 = queue'
        /\ old = Holders(u) /\ new = Holders(u)'
        /\ sum = SumFunctionOnSet(q, Of(u))
        /\ sum1 = SumFunctionOnSet(q1, Of(u))
  OBVIOUS
<1>2. /\ q \in [Message -> Nat] /\ q1 \in [Message -> Nat]
      /\ m \in Message
      /\ crashes \in Nat /\ crashes' \in Nat
  BY <1>1 DEF TypeOK, Moves, Of, Message
<1>3. q[m] \in Nat /\ q1[m] \in Nat
  BY <1>2
<1>4. sum \in Nat /\ sum1 \in Nat
  BY <1>1, <1>2, CopiesTypes
<1>5. /\ u = t => sum1 + q[m] = sum + q1[m]
      /\ u # t => sum1 = sum
  <2>1. \A x \in Message : x # m => q1[x] = q[x]
    BY <1>1 DEF Moves
  <2>2. /\ SumFunctionOnSet(q1, Of(t)) + q[m] = SumFunctionOnSet(q, Of(t)) + q1[m]
        /\ \A x \in Task : x # t => SumFunctionOnSet(q1, Of(x)) = SumFunctionOnSet(q, Of(x))
    BY <1>2, <2>1, QueueChanges
  <2>. QED BY <1>1, <2>2
<1>6. old \in SUBSET Worker
  BY <1>1 DEF Holders
<1>7. Cardinality(old) \in Nat
  BY <1>6, FewerHolders
<1>8. sum + Cardinality(old) <= 1 + crashes
  BY <1>1 DEF CopiesBounded, Copies, Of, Holders
<1>9. Copies(u)' = sum1 + Cardinality(new)
  BY <1>1 DEF Copies, Of, Holders
<1>10. CASE u = t
  <2>1. /\ Cardinality(new) \in Nat
        /\ q1[m] + Cardinality(new) + crashes <= q[m] + Cardinality(old) + crashes'
    BY <1>1, <1>10 DEF Moves
  <2>2. PICK a, b, c, d, e, f : /\ a = Cardinality(new) /\ b = Cardinality(old)
                                /\ c = crashes /\ d = crashes'
                                /\ e = q[m] /\ f = q1[m]
    OBVIOUS
  <2>3. /\ a \in Nat /\ b \in Nat /\ c \in Nat /\ d \in Nat /\ e \in Nat /\ f \in Nat
        /\ sum1 + e = sum + f /\ f + a + c <= e + b + d /\ sum + b <= 1 + c
    BY <1>2, <1>3, <1>5, <1>7, <1>8, <1>10, <2>1, <2>2
  <2>4. sum1 + a <= 1 + d
    BY ONLY <1>4, <2>3
  <2>. QED BY <1>9, <2>2, <2>4
<1>11. CASE u # t
  <2>1. new \in SUBSET old /\ crashes <= crashes'
    BY <1>1, <1>11 DEF Moves
  <2>2. Cardinality(new) \in Nat /\ Cardinality(new) <= Cardinality(old)
    BY <1>6, <2>1, FewerHolders
  <2>. QED BY <1>2, <1>4, <1>5, <1>7, <1>8, <1>9, <1>11, <2>1, <2>2
<1>. QED BY <1>10, <1>11

(* The workers that hold a call when one of them takes a step.             *)
LEMMA HoldersOfOthers ==
  ASSUME NEW w \in Worker, \A v \in Worker : v # w => worker'[v] = worker[v]
  PROVE  /\ \A u : Running(w)' /\ worker'[w].task = u
                     => Holders(u)' = Holders(u) \cup {w}
         /\ \A u : ~(Running(w)' /\ worker'[w].task = u)
                     => Holders(u)' = Holders(u) \ {w}
BY DEF Holders, Running

(* A step in which a worker goes on with its call or stops.                *)
LEMMA WorkerGoesOn ==
  ASSUME TypeOK, CopiesBounded, NEW w \in Worker,
         \A v \in Worker : v # w => worker'[v] = worker[v],
         Running(w)' => Running(w) /\ worker'[w].task = worker[w].task,
         queue' = queue, crashes' = crashes
  PROVE  CopiesBounded'
<1>1. ASSUME NEW u \in Task PROVE Holders(u)' \subseteq Holders(u)
  BY DEF Holders, Running
<1>. QED BY <1>1, NoMoreCopies

(* A call is published once.                                               *)
LEMMA PublishCopies ==
  ASSUME CopiesInv, NEW t \in Task, Publish(t)
  PROVE  CopiesBounded'
<1>1. /\ t \notin issued
      /\ queue' = [queue EXCEPT ![<<t, 0>>] = queue[<<t, 0>>] + 1]
      /\ UNCHANGED <<worker, crashes>>
      /\ TypeOK /\ CopiesBounded /\ IInv
  BY DEF Publish, Published, CopiesInv, IInv
<1>2. 0 \in 0 .. MaxRetries /\ crashes \in Nat
  BY <1>1, TasksAssumption DEF TypeOK
<1>3. queue[<<t, 0>>] \in Nat
  BY <1>1, <1>2, QueueTypes
<1>4. \A u \in Task : Holders(u)' = Holders(u)
  BY <1>1 DEF Holders, Running
<1>5. Holders(t) = {} /\ SumFunctionOnSet(queue, Of(t)) = 0
  BY <1>1, NotPublished
<1>6. Cardinality(Holders(t)) = 0 /\ Cardinality(Holders(t)') = 0
  BY <1>4, <1>5, FS_EmptySet
<1>. SUFFICES ASSUME NEW u \in Task PROVE Copies(u)' <= 1 + crashes'
  BY DEF CopiesBounded
<1>7. PICK q, q1, m : q = queue /\ q1 = queue' /\ m = <<t, 0>>
  OBVIOUS
<1>8. /\ q \in [Message -> Nat] /\ q1 \in [Message -> Nat] /\ m \in Of(t)
      /\ q1[m] = q[m] + 1 /\ \A x \in Message : x # m => q1[x] = q[x]
      /\ q[m] \in Nat
  <2>1. m \in Message /\ m \in Of(t)
    BY <1>2, <1>7 DEF Message, Of
  <2>. QED BY <1>1, <1>3, <1>7, <2>1 DEF TypeOK
<1>9. /\ SumFunctionOnSet(q1, Of(t)) + q[m] = SumFunctionOnSet(q, Of(t)) + q1[m]
      /\ u # t => SumFunctionOnSet(q1, Of(u)) = SumFunctionOnSet(q, Of(u))
  BY <1>8, QueueChanges
<1>10. Copies(u)' = SumFunctionOnSet(q1, Of(u)) + Cardinality(Holders(u)')
  BY <1>7 DEF Copies, Of, Holders
<1>11. Copies(u) = SumFunctionOnSet(q, Of(u)) + Cardinality(Holders(u)) /\ Copies(u) <= 1 + crashes
  BY <1>1, <1>7 DEF Copies, Of, Holders, CopiesBounded
<1>12. CASE u = t
  <2>1. SumFunctionOnSet(q1, Of(t)) \in Nat
    BY <1>8, CopiesTypes
  <2>2. PICK a, b : a = SumFunctionOnSet(q1, Of(t)) /\ b = q[m]
    OBVIOUS
  <2>3. a \in Nat /\ b \in Nat /\ a + b = 0 + (b + 1)
    BY <1>5, <1>7, <1>8, <1>9, <2>1, <2>2
  <2>4. a = 1
    BY ONLY <2>3
  <2>. QED BY <1>1, <1>2, <1>6, <1>10, <1>12, <2>2, <2>4
<1>13. CASE u # t
  BY <1>1, <1>4, <1>9, <1>10, <1>11, <1>13
<1>. QED BY <1>12, <1>13

(* A message goes from the queue to a worker.                              *)
LEMMA TakeCopies ==
  ASSUME CopiesInv, NEW w \in Worker, NEW m \in Message, Take(w, m)
  PROVE  CopiesBounded'
<1>1. PICK t \in Task, n \in 0 .. MaxRetries : m = <<t, n>>
  BY DEF Message
<1>2. PICK job : job = JobAt(t, n, "taken", Unread, {})
  OBVIOUS
<1>3. /\ queue[<<t, n>>] > 0
      /\ queue' = [queue EXCEPT ![<<t, n>>] = queue[<<t, n>>] - 1]
      /\ worker' = [worker EXCEPT ![w] = job]
      /\ worker[w].stage = "idle"
      /\ crashes' = crashes
      /\ TypeOK /\ CopiesBounded
  BY <1>1, <1>2 DEF Take, Held, CopiesInv, IInv
<1>4. job \in Job /\ job.task = t /\ job.stage = "taken"
  BY <1>2, EmptyJob, JobAtParts
<1>5. worker'[w] = job /\ \A v \in Worker : v # w => worker'[v] = worker[v]
  BY <1>3, <1>4, WorkerSet
<1>6. /\ Holders(t)' = Holders(t) \cup {w} /\ w \notin Holders(t)
      /\ \A u \in Task : u # t => Holders(u)' \subseteq Holders(u)
  <2>1. Running(w)' /\ worker'[w].task = t /\ ~Running(w)
    BY <1>3, <1>4, <1>5 DEF Running
  <2>. QED BY <1>5, <2>1, HoldersOfOthers DEF Holders
<1>7. PICK old, new : old = Holders(t) /\ new = Holders(t)'
  OBVIOUS
<1>8. old \in SUBSET Worker
  BY <1>7 DEF Holders
<1>9. /\ Cardinality(old) \in Nat /\ Cardinality(new) = Cardinality(old) + 1
  BY <1>6, <1>7, <1>8, FewerHolders, FS_AddElement
<1>10. crashes \in Nat /\ queue[<<t, n>>] \in Nat
  BY <1>3, QueueTypes DEF TypeOK
<1>11. PICK msg : msg = <<t, n>>
  OBVIOUS
<1>12. msg \in Of(t) /\ msg \in Message /\ queue \in [Message -> Nat]
  BY <1>3, <1>11 DEF Of, Message, TypeOK
<1>13. /\ queue' \in [Message -> Nat] /\ queue'[msg] = queue[msg] - 1
       /\ \A x \in Message : x # msg => queue'[x] = queue[x]
  BY <1>3, <1>10, <1>11, <1>12
<1>14. queue'[msg] + Cardinality(new) + crashes <= queue[msg] + Cardinality(old) + crashes'
  BY <1>3, <1>9, <1>10, <1>11, <1>13
<1>15. Moves(t, msg)
  BY <1>3, <1>6, <1>7, <1>9, <1>10, <1>13, <1>14 DEF Moves
<1>. QED BY <1>3, <1>12, <1>15, CopiesMove

(* A worker that is given another job.                                     *)
LEMMA JobReplaced ==
  ASSUME TypeOK, NEW w \in Worker, NEW t, NEW n, NEW stage, NEW seen, NEW pending,
         worker' = [worker EXCEPT ![w] = JobAt(t, n, stage, seen, pending)]
  PROVE  /\ worker'[w].task = t /\ worker'[w].stage = stage
         /\ \A v \in Worker : v # w => worker'[v] = worker[v]
<1>1. PICK job : job = JobAt(t, n, stage, seen, pending)
  OBVIOUS
<1>2. job.task = t /\ job.stage = stage
  BY <1>1, JobAtParts
<1>3. worker'[w] = job /\ \A v \in Worker : v # w => worker'[v] = worker[v]
  BY <1>1 DEF TypeOK
<1>. QED BY <1>2, <1>3

(* A worker goes on.                                                       *)
LEMMA GoesOnCopies ==
  ASSUME CopiesInv, NEW w \in Worker,
         Load(w) \/ (\E u \in Tool : Upsert(w, u)) \/ Commit(w) \/ ScanNothing(w) \/ Ack(w)
  PROVE  CopiesBounded'
<1>1. /\ TypeOK /\ CopiesBounded /\ queue' = queue /\ crashes' = crashes
  BY DEF CopiesInv, IInv, Load, Upsert, Commit, ScanNothing, Ack
<1>2. PICK t, n : t = worker[w].task /\ n = worker[w].retries
  OBVIOUS
<1>3. ASSUME NEW stage, NEW seen, NEW pending, Running(w),
             worker' = [worker EXCEPT ![w] = JobAt(t, n, stage, seen, pending)]
      PROVE  CopiesBounded'
  <2>1. /\ worker'[w].task = worker[w].task
        /\ \A v \in Worker : v # w => worker'[v] = worker[v]
    BY <1>1, <1>2, <1>3, JobReplaced
  <2>. QED BY <1>1, <1>3, <2>1, WorkerGoesOn
<1>4. CASE Load(w)
  <2>1. PICK seen, pending :
          worker' = [worker EXCEPT ![w] = JobAt(t, n, "loaded", seen, pending)]
    BY <1>2, <1>4 DEF Load
  <2>2. Running(w)
    BY <1>4 DEF Load, At, Running
  <2>. QED BY <1>3, <2>1, <2>2
<1>5. ASSUME NEW u \in Tool, Upsert(w, u) PROVE CopiesBounded'
  <2>1. PICK seen, pending :
          worker' = [worker EXCEPT ![w] = JobAt(t, n, "loaded", seen, pending)]
    BY <1>2, <1>5 DEF Upsert
  <2>2. Running(w)
    BY <1>5 DEF Upsert, At, Running
  <2>. QED BY <1>3, <2>1, <2>2
<1>6. CASE Commit(w) \/ ScanNothing(w)
  <2>1. worker' = [worker EXCEPT ![w] = JobAt(t, n, "settled", Unread, {})]
    BY <1>2, <1>6 DEF Commit, ScanNothing, Settled
  <2>2. Running(w)
    BY <1>6 DEF Commit, ScanNothing, Ready, At, Running
  <2>. QED BY <1>3, <2>1, <2>2
<1>7. CASE Ack(w)
  <2>1. worker' = [worker EXCEPT ![w] = JobAt(NoTask, 0, "idle", Unread, {})]
    BY <1>7 DEF Ack, Idle
  <2>2. /\ worker'[w].stage = "idle"
        /\ \A v \in Worker : v # w => worker'[v] = worker[v]
    BY <1>1, <2>1 DEF TypeOK, JobAt
  <2>3. ~Running(w)'
    BY <2>2 DEF Running
  <2>. QED BY <1>1, <2>2, <2>3, WorkerGoesOn
<1>. QED BY <1>4, <1>5, <1>6, <1>7

(* A call that fails goes from a worker back to the queue, or ends.        *)
LEMMA FailCopies ==
  ASSUME CopiesInv, NEW w \in Worker, Fail(w)
  PROVE  CopiesBounded'
<1>1. PICK t, r : t = worker[w].task /\ r = worker[w].retries
  OBVIOUS
<1>2. /\ Running(w)
      /\ \/ queue' = Published(<<t, r + 1>>) /\ r < MaxRetries
         \/ queue' = queue
      /\ worker' = [worker EXCEPT ![w] = JobAt(t, r, "settled", Unread, {})]
      /\ crashes' = crashes
      /\ TypeOK /\ CopiesBounded
  BY <1>1 DEF Fail, Retry, Settled, CopiesInv, IInv
<1>3. t \in Task /\ r \in 0 .. MaxRetries
  <2>1. t \in issued
    BY <1>1, <1>2 DEF CopiesInv, IInv, JobsOK, Sound, Running
  <2>. QED BY <1>1, <1>2, <2>1, JobTypes DEF TypeOK
<1>4. /\ worker'[w].stage = "settled"
      /\ \A v \in Worker : v # w => worker'[v] = worker[v]
  BY <1>2 DEF TypeOK, JobAt
<1>5. ~Running(w)'
  BY <1>4 DEF Running
<1>6. CASE queue' = queue
  BY <1>2, <1>4, <1>5, <1>6, WorkerGoesOn
<1>7. CASE queue' = Published(<<t, r + 1>>) /\ r < MaxRetries
  <2>1. PICK n \in 0 .. MaxRetries : n = r + 1
    BY <1>3, <1>7, TasksAssumption
  <2>2. PICK msg : msg = <<t, n>>
    OBVIOUS
  <2>3. /\ msg \in Of(t) /\ msg \in Message
        /\ queue \in [Message -> Nat] /\ queue[msg] \in Nat /\ crashes \in Nat
    BY <1>2, <1>3, <2>2, QueueTypes DEF Of, TypeOK
  <2>4. /\ queue' \in [Message -> Nat] /\ queue'[msg] = queue[msg] + 1
        /\ \A x \in Message : x # msg => queue'[x] = queue[x]
    BY <1>7, <2>1, <2>2, <2>3 DEF Published
  <2>5. \A u \in Task : Holders(u)' = Holders(u) \ {w}
    BY <1>4, <1>5, HoldersOfOthers
  <2>6. PICK old, new : old = Holders(t) /\ new = Holders(t)'
    OBVIOUS
  <2>7. old \in SUBSET Worker /\ w \in old
    BY <1>1, <1>2, <2>6 DEF Holders
  <2>8. new \in SUBSET old /\ w \notin new
    BY <1>3, <2>5, <2>6
  <2>9. /\ Cardinality(old) \in Nat /\ Cardinality(new) \in Nat
        /\ Cardinality(new) <= Cardinality(old) - 1
    BY <2>7, <2>8, FewerHolders
  <2>10. queue'[msg] + Cardinality(new) + crashes <= queue[msg] + Cardinality(old) + crashes'
    BY <1>2, <2>3, <2>4, <2>9
  <2>11. Moves(t, msg)
    BY <1>2, <2>3, <2>4, <2>5, <2>6, <2>9, <2>10 DEF Moves
  <2>. QED BY <1>2, <1>3, <2>3, <2>11, CopiesMove
<1>. QED BY <1>2, <1>6, <1>7

(* A lost worker gives its message back: one copy more, if it had settled. *)
LEMMA CrashCopies ==
  ASSUME CopiesInv, NEW w \in Worker, Crash(w)
  PROVE  CopiesBounded'
<1>1. PICK t, n : t = worker[w].task /\ n = worker[w].retries
  OBVIOUS
<1>2. /\ ~At(w, "idle") /\ worker' = [worker EXCEPT ![w] = Idle]
      /\ queue' = Published(<<t, n>>)
      /\ crashes' = crashes + 1
      /\ TypeOK /\ CopiesBounded
  BY <1>1 DEF Crash, GivenBack, CopiesInv, IInv
<1>3. t \in Task /\ n \in 0 .. MaxRetries
  <2>1. t \in issued
    BY <1>1, <1>2 DEF CopiesInv, IInv, JobsOK, Sound, At
  <2>. QED BY <1>1, <1>2, <2>1, JobTypes DEF TypeOK
<1>4. queue[<<t, n>>] \in Nat /\ crashes \in Nat
  BY <1>2, <1>3, QueueTypes DEF TypeOK
<1>5. PICK msg : msg = <<t, n>>
  OBVIOUS
<1>6. msg \in Of(t) /\ msg \in Message /\ queue \in [Message -> Nat]
  BY <1>2, <1>3, <1>5 DEF Of, Message, TypeOK
<1>7. /\ queue' \in [Message -> Nat] /\ queue'[msg] = queue[msg] + 1
      /\ \A x \in Message : x # msg => queue'[x] = queue[x]
  BY <1>2, <1>4, <1>5, <1>6 DEF Published
<1>8. /\ worker'[w].stage = "idle"
      /\ \A v \in Worker : v # w => worker'[v] = worker[v]
  BY <1>2 DEF TypeOK, Idle, JobAt
<1>9. \A u \in Task : Holders(u)' = Holders(u) \ {w}
  <2>1. ~Running(w)'
    BY <1>8 DEF Running
  <2>. QED BY <1>8, <2>1, HoldersOfOthers
<1>10. PICK old, new : old = Holders(t) /\ new = Holders(t)'
  OBVIOUS
<1>11. old \in SUBSET Worker
  BY <1>10 DEF Holders
<1>12. new \in SUBSET old
  BY <1>3, <1>9, <1>10
<1>13. /\ Cardinality(old) \in Nat /\ Cardinality(new) \in Nat
       /\ Cardinality(new) <= Cardinality(old)
  BY <1>11, <1>12, FewerHolders
<1>14. queue[msg] \in Nat
  BY <1>6
<1>15. queue'[msg] + Cardinality(new) + crashes <= queue[msg] + Cardinality(old) + crashes'
  BY <1>2, <1>4, <1>7, <1>13, <1>14
<1>16. Moves(t, msg)
  BY <1>2, <1>4, <1>7, <1>9, <1>10, <1>13, <1>15 DEF Moves
<1>. QED BY <1>2, <1>3, <1>6, <1>16, CopiesMove

(* At first there are no copies.                                           *)
LEMMA CopiesInit == Init => CopiesInv
<1>. SUFFICES ASSUME Init PROVE CopiesInv
  OBVIOUS
<1>1. IInv
  BY InitInv
<1>2. ASSUME NEW t \in Task PROVE Copies(t) <= 1 + crashes
  <2>1. t \notin issued /\ crashes = 0
    BY DEF Init
  <2>2. SumFunctionOnSet(queue, Of(t)) = 0 /\ Holders(t) = {}
    BY <1>1, <2>1, NotPublished
  <2>3. Cardinality(Holders(t)) = 0
    BY <2>2, FS_EmptySet
  <2>4. Copies(t) = SumFunctionOnSet(queue, Of(t)) + Cardinality(Holders(t))
    BY DEF Copies, Of, Holders
  <2>. QED BY <2>1, <2>2, <2>3, <2>4
<1>. QED BY <1>1, <1>2 DEF CopiesInv, CopiesBounded

(* Every step keeps the bound.                                             *)
LEMMA CopiesNext == CopiesInv /\ [Next]_tasksVars => CopiesInv'
<1>. SUFFICES ASSUME CopiesInv, [Next]_tasksVars PROVE CopiesInv'
  OBVIOUS
<1>1. IInv' /\ TypeOK /\ CopiesBounded
  BY NextInv DEF CopiesInv, IInv
<1>2. ASSUME NEW t \in Task, Publish(t) PROVE CopiesBounded'
  BY <1>2, PublishCopies
<1>3. ASSUME NEW w \in Worker, WorkerStep(w) PROVE CopiesBounded'
  <2>1. ASSUME NEW m \in Message, Take(w, m) PROVE CopiesBounded'
    BY <2>1, TakeCopies
  <2>2. CASE Fail(w)
    BY <2>2, FailCopies
  <2>3. CASE Load(w) \/ (\E u \in Tool : Upsert(w, u)) \/ Commit(w) \/ ScanNothing(w) \/ Ack(w)
    BY <2>3, GoesOnCopies
  <2>. QED BY <1>3, <2>1, <2>2, <2>3 DEF WorkerStep
<1>4. ASSUME NEW w \in Worker, Crash(w) PROVE CopiesBounded'
  BY <1>4, CrashCopies
<1>5. ASSUME UNCHANGED <<queue, worker, crashes>> PROVE CopiesBounded'
  <2>1. \A u \in Task : Holders(u)' \subseteq Holders(u)
    BY <1>5 DEF Holders, Running
  <2>. QED BY <1>1, <1>5, <2>1, NoMoreCopies
<1>6. ASSUME NEW u \in Tool, Delete(u) \/ \E text \in Text : Edit(u, text)
      PROVE  CopiesBounded'
  BY <1>5, <1>6 DEF Delete, Edit
<1>7. ASSUME UNCHANGED tasksVars PROVE CopiesBounded'
  BY <1>5, <1>7 DEF tasksVars
<1>8. CopiesBounded'
  BY <1>2, <1>3, <1>4, <1>6, <1>7 DEF Next, WorkersStep
<1>. QED BY <1>1, <1>8 DEF CopiesInv

(* Retries do not multiply a call: it has one copy more than workers were  *)
(* lost, at most.                                                          *)
THEOREM CopiesAreBounded == Spec => []CopiesBounded
<1>1. CopiesInv => CopiesBounded
  BY DEF CopiesInv
<1>. QED BY <1>1, CopiesInit, CopiesNext, PTL DEF Spec
=============================================================================
