---------------------------- MODULE ToolRegistry ----------------------------
(***************************************************************************)
(* The tool registry: the tables `tools` and `tool_versions` and the HTTP  *)
(* handlers that write them (api/v1/tools.py).  A handler is a database    *)
(* session of its own: it loads what it needs in one step and commits in a *)
(* later one, and the steps of different requests interleave in any order. *)
(*                                                                         *)
(* The session is READ COMMITTED and takes no lock when it reads.  What it *)
(* writes is decided by the SQLAlchemy unit of work: an UPDATE carries the *)
(* columns whose value differs from the one the session loaded, and no     *)
(* other.                                                                  *)
(*                                                                         *)
(* The analysis that a handler leaves to a background task is here any     *)
(* change of the two embedding columns; module ConflictAnalysis gives its  *)
(* steps and is checked to implement this module.                          *)
(***************************************************************************)
EXTENDS Integers, Sequences

CONSTANTS
  Tool,          \* ids a row of `tools` can have (uuid4, never reused)
  Key,           \* <<environment_id, server_id, name>> triples
  GatedKey,      \* keys of environments with max_severity_to_block = CRITICAL
  Description,   \* values of the column `description`
  Schema,        \* values of the column `input_schema`
  Settable,      \* strings a PUT body may give as `status` (any is accepted)
  Hash,          \* digests of fingerprint texts
  Embedding,     \* embedding vectors
  Request,       \* HTTP requests in progress at one time
  MaxRevisions,  \* bound: no update starts on a tool with this many snapshots
  NoTool, NoRow, None

ASSUME RegistryAssumption ==
  /\ GatedKey \subseteq Key
  /\ MaxRevisions \in Nat \ {0}
  /\ NoTool \notin Tool
  /\ None \notin Hash \cup Embedding

Status == {"active", "deprecated", "flagged", "pending_approval"} \cup Settable

Column == {"description", "input_schema", "status"}

Row ==
  [key : Key, description : Description, input_schema : Schema,
   status : Status, version : Nat \ {0}, is_deleted : BOOLEAN,
   hash : Hash \cup {None}, embedding : Embedding \cup {None}]

ASSUME NoRowAssumption == NoRow \notin Row

\* A row of `tool_versions`; `changed` is the set of keys of its `diff`.
Snapshot ==
  [version : Nat \ {0}, description : Description, input_schema : Schema,
   changed : SUBSET Column]

Op == {"idle", "register", "update", "deprecate", "background"}

\* A request: the tool it is about, the row as its session loaded it and the
\* row as the handler left it in the session, not yet flushed.
Session ==
  [op : Op, tool : Tool \cup {NoTool},
   seen : Row \cup {NoRow}, mine : Row \cup {NoRow}]

VARIABLES
  tool,      \* the table `tools`: a row, or NoRow, for each id
  history,   \* the rows of `tool_versions` of each tool, oldest first
  req        \* the session of each request

vars == <<tool, history, req>>

Exists(t) == tool[t] # NoRow

Live(t) == Exists(t) /\ ~tool[t].is_deleted

-----------------------------------------------------------------------------
(* The unit of work: a column the handler did not change keeps the value   *)
(* the database has when the UPDATE runs.                                  *)

Col(stored, loaded, set) == IF set = loaded THEN stored ELSE set

\* Fault: the UPDATE carries every column of the session's row.
FlushWholeRow(row, seen, mine) == mine

Flush(row, seen, mine) ==
  [key          |-> row.key,
   description  |-> Col(row.description, seen.description, mine.description),
   input_schema |-> Col(row.input_schema, seen.input_schema, mine.input_schema),
   status       |-> Col(row.status, seen.status, mine.status),
   version      |-> Col(row.version, seen.version, mine.version),
   is_deleted   |-> Col(row.is_deleted, seen.is_deleted, mine.is_deleted),
   hash         |-> Col(row.hash, seen.hash, mine.hash),
   embedding    |-> Col(row.embedding, seen.embedding, mine.embedding)]

-----------------------------------------------------------------------------
Idle == [op |-> "idle", tool |-> NoTool, seen |-> NoRow, mine |-> NoRow]

Background(t) ==
  [op |-> "background", tool |-> t, seen |-> NoRow, mine |-> NoRow]

Init ==
  /\ tool = [t \in Tool |-> NoRow]
  /\ history = [t \in Tool |-> <<>>]
  /\ req = [r \in Request |-> Idle]

NewRow(k, d, s) ==
  [key |-> k, description |-> d, input_schema |-> s,
   status |-> IF k \in GatedKey THEN "pending_approval" ELSE "active",
   version |-> 1, is_deleted |-> FALSE, hash |-> None, embedding |-> None]

\* Fault: snapshots are numbered from zero.
SnapshotFromZero(row, changed) ==
  [version |-> row.version - 1, description |-> row.description,
   input_schema |-> row.input_schema, changed |-> changed]

SnapshotOf(row, changed) ==
  [version |-> row.version, description |-> row.description,
   input_schema |-> row.input_schema, changed |-> changed]

(* POST /tools: the duplicate check reads rows that are not deleted.       *)
RegisterCheck(r) ==
  /\ req[r].op = "idle"
  /\ \E k \in Key, d \in Description, s \in Schema :
       /\ \A t \in Tool : Live(t) => tool[t].key # k
       /\ req' = [req EXCEPT ![r] =
                    [op |-> "register", tool |-> NoTool,
                     seen |-> NoRow, mine |-> NewRow(k, d, s)]]
  /\ UNCHANGED <<tool, history>>

\* Fault: the table has no such constraint, the duplicate check is alone.
KeyNeverTaken(k) == FALSE

\* uq_tool_env_server_name is over every row, deleted or not.
KeyTaken(k) == \E t \in Tool : Exists(t) /\ tool[t].key = k

(* The INSERT, the first snapshot and the commit.  A concurrent INSERT of  *)
(* the same key waits for this transaction, so the three are one step.     *)
RegisterInsert(r) ==
  /\ req[r].op = "register"
  /\ ~KeyTaken(req[r].mine.key)
  /\ \E t \in Tool :
       /\ ~Exists(t)
       /\ tool' = [tool EXCEPT ![t] = req[r].mine]
       /\ history' = [history EXCEPT ![t] = <<SnapshotOf(req[r].mine, {})>>]
       /\ req' = [req EXCEPT ![r] = Background(t)]

(* IntegrityError at the flush: get_db rolls back and the client gets 500. *)
RegisterRefused(r) ==
  /\ req[r].op = "register"
  /\ KeyTaken(req[r].mine.key)
  /\ req' = [req EXCEPT ![r] = Idle]
  /\ UNCHANGED <<tool, history>>

\* Fault: the version is raised once for the row and once for the snapshot.
RevisedTwice(row, d, s, st) ==
  [key |-> row.key, description |-> d, input_schema |-> s, status |-> st,
   version |-> row.version + 2, is_deleted |-> row.is_deleted,
   hash |-> None, embedding |-> row.embedding]

\* What PUT leaves in the session when at least one field changes.
Revised(row, d, s, st) ==
  [key |-> row.key, description |-> d, input_schema |-> s, status |-> st,
   version |-> row.version + 1, is_deleted |-> row.is_deleted,
   hash |-> None, embedding |-> row.embedding]

Changed(seen, mine) ==
  {c \in Column :
     \/ c = "description"  /\ mine.description # seen.description
     \/ c = "input_schema" /\ mine.input_schema # seen.input_schema
     \/ c = "status"       /\ mine.status # seen.status}

(* PUT /tools/{id}: the row is loaded (404 when it is deleted) and changed *)
(* in the session.  A field the body leaves out keeps its value; a body    *)
(* that changes nothing ends the request and is no step here.              *)
UpdateLoad(r) ==
  /\ req[r].op = "idle"
  /\ \E t \in {u \in Tool : Live(u)}, d \in Description, s \in Schema :
     \E st \in Settable \cup {tool[t].status} :
       /\ Len(history[t]) < MaxRevisions
       /\ Changed(tool[t], Revised(tool[t], d, s, st)) # {}
       /\ req' = [req EXCEPT ![r] =
                    [op |-> "update", tool |-> t, seen |-> tool[t],
                     mine |-> Revised(tool[t], d, s, st)]]
  /\ UNCHANGED <<tool, history>>

(* The commit of PUT: the UPDATE and the snapshot of the session's row.    *)
UpdateCommit(r) ==
  LET t == req[r].tool
      seen == req[r].seen
      mine == req[r].mine
  IN  /\ req[r].op = "update"
      /\ tool' = [tool EXCEPT ![t] = Flush(tool[t], seen, mine)]
      /\ history' = [history EXCEPT ![t] =
                       Append(@, SnapshotOf(mine, Changed(seen, mine)))]
      /\ req' = [req EXCEPT ![r] = Background(t)]

SoftDeleted(row) == [row EXCEPT !.is_deleted = TRUE]

Deprecated(row) == [SoftDeleted(row) EXCEPT !.status = "deprecated"]

(* DELETE /tools/{id}: soft_delete() and the status, no snapshot.          *)
DeprecateLoad(r) ==
  /\ req[r].op = "idle"
  /\ \E t \in Tool :
       /\ Live(t)
       /\ req' = [req EXCEPT ![r] =
                    [op |-> "deprecate", tool |-> t, seen |-> tool[t],
                     mine |-> Deprecated(tool[t])]]
  /\ UNCHANGED <<tool, history>>

DeprecateCommit(r) ==
  LET t == req[r].tool
  IN  /\ req[r].op = "deprecate"
      /\ tool' = [tool EXCEPT ![t] = Flush(tool[t], req[r].seen, req[r].mine)]
      /\ req' = [req EXCEPT ![r] = Idle]
      /\ UNCHANGED history

WithHash(row, h) == [row EXCEPT !.hash = h]

Embedded(row, h, e) == [WithHash(row, h) EXCEPT !.embedding = e]

(* The background analysis of the request ends: it may have written the    *)
(* embedding columns of its tool, and writes no other column of `tools`.   *)
BackgroundAnalysis(r) ==
  /\ req[r].op = "background"
  /\ \E h \in Hash \cup {None}, e \in Embedding \cup {None} :
       tool' = [tool EXCEPT ![req[r].tool] = Embedded(@, h, e)]
  /\ req' = [req EXCEPT ![r] = Idle]
  /\ UNCHANGED history

(* The process dies, or the handler raises, before its commit: the session *)
(* is rolled back; after the commit it is the background task that is lost.*)
Abandon(r) ==
  /\ req[r].op # "idle"
  /\ req' = [req EXCEPT ![r] = Idle]
  /\ UNCHANGED <<tool, history>>

Handler(r) ==
  \/ RegisterCheck(r)
  \/ RegisterInsert(r)
  \/ RegisterRefused(r)
  \/ UpdateLoad(r)
  \/ UpdateCommit(r)
  \/ DeprecateLoad(r)
  \/ DeprecateCommit(r)
  \/ Abandon(r)

Next == \E r \in Request : Handler(r) \/ BackgroundAnalysis(r)

Spec == Init /\ [][Next]_vars

-----------------------------------------------------------------------------
(* Every variable has its type, and a request that has loaded or inserted  *)
(* a row points at one that is in the table.                               *)
TypeOK ==
  /\ tool \in [Tool -> Row \cup {NoRow}]
  /\ history \in [Tool -> Seq(Snapshot)]
  /\ req \in [Request -> Session]

(* Two requests that both passed the duplicate check never leave two rows  *)
(* with one environment, server and name (register_tool).                  *)
UniqueName ==
  \A t, u \in Tool :
    Exists(t) /\ Exists(u) /\ tool[t].key = tool[u].key => t = u

(* Concurrent updates may repeat a version number and may move the live    *)
(* version back, but the numbers of the history have no gap: a snapshot    *)
(* numbered v > 1 has a predecessor numbered v - 1, recorded before it,    *)
(* and the live version is the number of a snapshot (update_tool).         *)
HistoryHasNoGap ==
  \A t \in Tool :
    /\ Exists(t) => \E i \in DOMAIN history[t] :
                      history[t][i].version = tool[t].version
    /\ \A i \in DOMAIN history[t] :
         history[t][i].version > 1 =>
           \E j \in 1 .. i - 1 :
             history[t][j].version = history[t][i].version - 1

\* i is the last snapshot that set column c.
LastSet(t, c, i) ==
  /\ i \in DOMAIN history[t]
  /\ \A j \in DOMAIN history[t] : j > i => c \notin history[t][j].changed

(* Whatever updates overlapped, the live definition is what the diffs of   *)
(* the history say: each column holds the value of the last snapshot whose *)
(* diff names it, or of the first one when none does (the columns a diff   *)
(* names are the columns the UPDATE writes).                               *)
DiffsGiveLiveDefinition ==
  \A t \in Tool : Exists(t) =>
    /\ \E i \in DOMAIN history[t] :
         /\ LastSet(t, "description", i)
         /\ i = 1 \/ "description" \in history[t][i].changed
         /\ tool[t].description = history[t][i].description
    /\ \E i \in DOMAIN history[t] :
         /\ LastSet(t, "input_schema", i)
         /\ i = 1 \/ "input_schema" \in history[t][i].changed
         /\ tool[t].input_schema = history[t][i].input_schema

(* No request brings a deprecated tool back, renames a tool or removes a   *)
(* row, whatever it had loaded before the deprecation was committed.       *)
DeprecationIsFinal ==
  [][\A t \in Tool : Exists(t) =>
       /\ Exists(t)'
       /\ tool'[t].key = tool[t].key
       /\ tool[t].is_deleted => tool'[t].is_deleted]_vars

-----------------------------------------------------------------------------
(* The docstring of ToolVersion: the "snapshot of a tool definition at a   *)
(* given version".  A live tool has one snapshot of its version, and it    *)
(* shows the live definition.                                              *)
OneSnapshotPerVersion ==
  \A t \in Tool : Exists(t) =>
    \E i \in DOMAIN history[t] :
      /\ history[t][i].version = tool[t].version
      /\ history[t][i].description = tool[t].description
      /\ history[t][i].input_schema = tool[t].input_schema
      /\ \A j \in DOMAIN history[t] :
           history[t][j].version = tool[t].version => j = i

(* The API reference on DELETE: a soft-deleted tool has the status         *)
(* "deprecated".                                                           *)
DeletedMeansDeprecated ==
  \A t \in Tool :
    Exists(t) /\ tool[t].is_deleted => tool[t].status = "deprecated"
=============================================================================
