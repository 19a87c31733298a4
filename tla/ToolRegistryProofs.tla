------------------------- MODULE ToolRegistryProofs -------------------------
(***************************************************************************)
(* Proofs about the tool registry, for every set of tools, keys and        *)
(* requests.  The inductive invariant is IInv: the types, what a session   *)
(* remembers of the row it loaded (SessionOK), and the properties.         *)
(***************************************************************************)
EXTENDS ToolRegistry, TLAPS

\* What holds of a session between the load and the commit.
SessionOK(r) ==
  LET q == req[r]
  IN  /\ q.op = "register" => q.mine \in Row /\ q.mine.version = 1
      /\ q.op \in {"update", "deprecate", "background"} =>
           q.tool \in Tool /\ Exists(q.tool)
      /\ q.op \in {"update", "deprecate"} => q.seen \in Row /\ q.mine \in Row
      /\ q.op = "update" =>
           /\ q.mine.version = q.seen.version + 1
           /\ q.mine.is_deleted = q.seen.is_deleted
           /\ \E i \in DOMAIN history[q.tool] :
                history[q.tool][i].version = q.seen.version
      /\ q.op = "deprecate" =>
           /\ q.mine.description = q.seen.description
           /\ q.mine.input_schema = q.seen.input_schema
           /\ q.mine.version = q.seen.version
           /\ q.seen.is_deleted = FALSE
           /\ q.mine.is_deleted = TRUE

SessionsOK == \A r \in Request : SessionOK(r)

TypeInv == TypeOK /\ SessionsOK

-----------------------------------------------------------------------------
(* What an UPDATE makes of a row: a row with the same key, in which a      *)
(* column the session did not change is untouched and one that it changed  *)
(* has the session's value.                                                *)
LEMMA FlushFacts ==
  ASSUME NEW row \in Row, NEW seen \in Row, NEW mine \in Row
  PROVE  LET new == Flush(row, seen, mine)
         IN  /\ new \in Row
             /\ new.key = row.key
             /\ new.description = Col(row.description, seen.description,
                                      mine.description)
             /\ new.input_schema = Col(row.input_schema, seen.input_schema,
                                       mine.input_schema)
             /\ new.version = Col(row.version, seen.version, mine.version)
             /\ new.is_deleted = Col(row.is_deleted, seen.is_deleted,
                                     mine.is_deleted)
BY DEF Flush, Col, Row

(* The handlers put rows in the session.                                   *)
LEMMA HandlerRows ==
  /\ \A k \in Key, d \in Description, s \in Schema :
       /\ NewRow(k, d, s) \in Row
       /\ NewRow(k, d, s).version = 1
       /\ NewRow(k, d, s).is_deleted = FALSE
  /\ \A row \in Row, d \in Description, s \in Schema, st \in Status :
       /\ Revised(row, d, s, st) \in Row
       /\ Revised(row, d, s, st).version = row.version + 1
       /\ Revised(row, d, s, st).is_deleted = row.is_deleted
  /\ \A row \in Row :
       /\ Deprecated(row) \in Row
       /\ Deprecated(row).description = row.description
       /\ Deprecated(row).input_schema = row.input_schema
       /\ Deprecated(row).version = row.version
       /\ Deprecated(row).is_deleted = TRUE
  /\ \A row \in Row, h \in Hash \cup {None}, e \in Embedding \cup {None} :
       /\ Embedded(row, h, e) \in Row
       /\ Embedded(row, h, e).key = row.key
       /\ Embedded(row, h, e).description = row.description
       /\ Embedded(row, h, e).input_schema = row.input_schema
       /\ Embedded(row, h, e).version = row.version
       /\ Embedded(row, h, e).is_deleted = row.is_deleted
<1>1. ASSUME NEW k \in Key, NEW d \in Description, NEW s \in Schema
      PROVE  /\ NewRow(k, d, s) \in Row
             /\ NewRow(k, d, s).version = 1
             /\ NewRow(k, d, s).is_deleted = FALSE
  BY DEF NewRow, Row, Status
<1>2. ASSUME NEW row \in Row, NEW d \in Description, NEW s \in Schema,
             NEW st \in Status
      PROVE  /\ Revised(row, d, s, st) \in Row
             /\ Revised(row, d, s, st).version = row.version + 1
             /\ Revised(row, d, s, st).is_deleted = row.is_deleted
  BY DEF Revised, Row
<1>3. ASSUME NEW row \in Row
      PROVE  /\ Deprecated(row) \in Row
             /\ Deprecated(row).description = row.description
             /\ Deprecated(row).input_schema = row.input_schema
             /\ Deprecated(row).version = row.version
             /\ Deprecated(row).is_deleted = TRUE
  <2>1. /\ SoftDeleted(row) \in Row
        /\ SoftDeleted(row).description = row.description
        /\ SoftDeleted(row).input_schema = row.input_schema
        /\ SoftDeleted(row).version = row.version
        /\ SoftDeleted(row).is_deleted = TRUE
    BY DEF SoftDeleted, Row
  <2>. QED BY <2>1 DEF Deprecated, Row, Status
<1>4. ASSUME NEW row \in Row, NEW h \in Hash \cup {None},
             NEW e \in Embedding \cup {None}
      PROVE  /\ Embedded(row, h, e) \in Row
             /\ Embedded(row, h, e).key = row.key
             /\ Embedded(row, h, e).description = row.description
             /\ Embedded(row, h, e).input_schema = row.input_schema
             /\ Embedded(row, h, e).version = row.version
             /\ Embedded(row, h, e).is_deleted = row.is_deleted
  <2>1. /\ WithHash(row, h) \in Row
        /\ WithHash(row, h).key = row.key
        /\ WithHash(row, h).description = row.description
        /\ WithHash(row, h).input_schema = row.input_schema
        /\ WithHash(row, h).version = row.version
        /\ WithHash(row, h).is_deleted = row.is_deleted
    BY DEF WithHash, Row
  <2>. QED BY <2>1 DEF Embedded, Row
<1>. QED BY <1>1, <1>2, <1>3, <1>4

(* A snapshot of a row is a row of tool_versions.                          *)
LEMMA SnapshotType ==
  ASSUME NEW row \in Row, NEW changed \in SUBSET Column
  PROVE  SnapshotOf(row, changed) \in Snapshot
BY DEF SnapshotOf, Snapshot, Row

(* The columns of a diff are columns.                                      *)
LEMMA ChangedType ==
  ASSUME NEW seen, NEW mine
  PROVE  Changed(seen, mine) \in SUBSET Column
BY DEF Changed

(* The empty tables have their types.                                      *)
LEMMA InitTypeInv == Init => TypeInv
BY NoRowAssumption
DEF Init, TypeInv, TypeOK, SessionsOK, SessionOK, Idle, Session, Op

-----------------------------------------------------------------------------
(* Preservation of TypeInv, one lemma for each group of actions.           *)

(* The session of POST holds a first version.                              *)
LEMMA RegisterCheckTypeInv ==
  ASSUME TypeInv, NEW r \in Request, RegisterCheck(r)
  PROVE  TypeInv'
<1>1. PICK k \in Key, d \in Description, s \in Schema :
        req' = [req EXCEPT ![r] = [op |-> "register", tool |-> NoTool,
                                   seen |-> NoRow, mine |-> NewRow(k, d, s)]]
  BY DEF RegisterCheck
<1>2. NewRow(k, d, s) \in Row /\ NewRow(k, d, s).version = 1
  BY HandlerRows
<1>3. UNCHANGED <<tool, history>>
  BY DEF RegisterCheck
<1>4. TypeOK'
  BY <1>1, <1>2, <1>3 DEF TypeInv, TypeOK, Session, Op
<1>5. ASSUME NEW q \in Request PROVE SessionOK(q)'
  <2>1. CASE q = r
    BY <1>1, <1>2, <2>1 DEF TypeInv, TypeOK, SessionOK
  <2>2. CASE q # r
    BY <1>1, <1>3, <2>2
    DEF TypeInv, TypeOK, SessionsOK, SessionOK, Exists
  <2>. QED BY <2>1, <2>2
<1>. QED BY <1>4, <1>5 DEF TypeInv, SessionsOK

(* The inserted row and its first snapshot have their types.               *)
LEMMA RegisterInsertTypeInv ==
  ASSUME TypeInv, NEW r \in Request, RegisterInsert(r)
  PROVE  TypeInv'
<1>1. PICK t \in Tool :
        /\ ~Exists(t)
        /\ tool' = [tool EXCEPT ![t] = req[r].mine]
        /\ history' = [history EXCEPT ![t] = <<SnapshotOf(req[r].mine, {})>>]
        /\ req' = [req EXCEPT ![r] = Background(t)]
  BY DEF RegisterInsert
<1>2. req[r].mine \in Row /\ req[r].op = "register"
  BY DEF RegisterInsert, TypeInv, SessionsOK, SessionOK
<1>3. SnapshotOf(req[r].mine, {}) \in Snapshot
  BY <1>2, SnapshotType
<1>4. TypeOK'
  BY <1>1, <1>2, <1>3 DEF TypeInv, TypeOK, Session, Op, Background
<1>5. \A u \in Tool : Exists(u) => Exists(u)' /\ history'[u] = history[u]
  BY <1>1, <1>2, NoRowAssumption DEF TypeInv, TypeOK, Exists
<1>6. ASSUME NEW q \in Request PROVE SessionOK(q)'
  <2>1. CASE q = r
    BY <1>1, <1>2, <2>1, NoRowAssumption
    DEF TypeInv, TypeOK, SessionOK, Background, Exists
  <2>2. CASE q # r
    <3>1. req'[q] = req[q]
      BY <1>1, <2>2 DEF TypeInv, TypeOK
    <3>. QED BY <3>1, <1>5 DEF TypeInv, SessionsOK, SessionOK
  <2>. QED BY <2>1, <2>2
<1>. QED BY <1>4, <1>6 DEF TypeInv, SessionsOK

(* The version that PUT loads is in the history (HistoryHasNoGap).         *)
LEMMA UpdateLoadTypeInv ==
  ASSUME TypeInv, HistoryHasNoGap, NEW r \in Request, UpdateLoad(r)
  PROVE  TypeInv'
<1>1. PICK t \in Tool, d \in Description, s \in Schema, st \in Status :
        /\ Live(t)
        /\ req' = [req EXCEPT ![r] =
                     [op |-> "update", tool |-> t, seen |-> tool[t],
                      mine |-> Revised(tool[t], d, s, st)]]
  <2>1. \A t \in Tool : Live(t) => tool[t].status \in Status
    BY DEF TypeInv, TypeOK, Live, Exists, Row
  <2>. QED BY <2>1 DEF UpdateLoad, Status
<1>2. UNCHANGED <<tool, history>>
  BY DEF UpdateLoad
<1>3. Exists(t) /\ tool[t] \in Row
  BY <1>1 DEF Live, Exists, TypeInv, TypeOK
<1>4. /\ Revised(tool[t], d, s, st) \in Row
      /\ Revised(tool[t], d, s, st).version = tool[t].version + 1
      /\ Revised(tool[t], d, s, st).is_deleted = tool[t].is_deleted
  BY <1>3, HandlerRows
<1>5. TypeOK'
  BY <1>1, <1>2, <1>3, <1>4 DEF TypeInv, TypeOK, Session, Op
<1>6. ASSUME NEW q \in Request PROVE SessionOK(q)'
  <2>1. CASE q = r
    BY <1>1, <1>2, <1>3, <1>4, <2>1
    DEF TypeInv, TypeOK, SessionOK, Exists, HistoryHasNoGap
  <2>2. CASE q # r
    BY <1>1, <1>2, <2>2 DEF TypeInv, TypeOK, SessionsOK, SessionOK, Exists
  <2>. QED BY <2>1, <2>2
<1>. QED BY <1>5, <1>6 DEF TypeInv, SessionsOK

(* A commit of PUT or DELETE keeps the rows of all other tools, and puts a *)
(* row in the place of the one it updates.                                 *)
LEMMA FlushedRow ==
  ASSUME TypeInv, NEW r \in Request, req[r].op \in {"update", "deprecate"},
         tool' = [tool EXCEPT ![req[r].tool] =
                    Flush(tool[req[r].tool], req[r].seen, req[r].mine)]
  PROVE  /\ req[r].tool \in Tool
         /\ tool[req[r].tool] \in Row
         /\ req[r].seen \in Row
         /\ req[r].mine \in Row
         /\ tool'[req[r].tool] =
              Flush(tool[req[r].tool], req[r].seen, req[r].mine)
         /\ tool' \in [Tool -> Row \cup {NoRow}]
         /\ \A u \in Tool : Exists(u) => Exists(u)'
         /\ \A u \in Tool : u # req[r].tool => tool'[u] = tool[u]
<1>1. /\ req[r].tool \in Tool
      /\ Exists(req[r].tool)
      /\ req[r].seen \in Row
      /\ req[r].mine \in Row
  BY DEF TypeInv, SessionsOK, SessionOK
<1>2. tool[req[r].tool] \in Row /\ tool \in [Tool -> Row \cup {NoRow}]
  BY <1>1 DEF TypeInv, TypeOK, Exists
<1>3. Flush(tool[req[r].tool], req[r].seen, req[r].mine) \in Row
  BY <1>1, <1>2, FlushFacts
<1>. QED BY <1>1, <1>2, <1>3, NoRowAssumption DEF Exists

(* The UPDATE and the snapshot of PUT have their types.                    *)
LEMMA UpdateCommitTypeInv ==
  ASSUME TypeInv, NEW r \in Request, UpdateCommit(r)
  PROVE  TypeInv'
<1>. DEFINE t == req[r].tool
            snap == SnapshotOf(req[r].mine, Changed(req[r].seen, req[r].mine))
<1>1. /\ req[r].op = "update"
      /\ tool' = [tool EXCEPT ![t] = Flush(tool[t], req[r].seen, req[r].mine)]
      /\ history' = [history EXCEPT ![t] = Append(@, snap)]
      /\ req' = [req EXCEPT ![r] = Background(t)]
  BY DEF UpdateCommit
<1>2. /\ t \in Tool
      /\ req[r].mine \in Row
      /\ tool' \in [Tool -> Row \cup {NoRow}]
      /\ \A u \in Tool : Exists(u) => Exists(u)'
  BY <1>1, FlushedRow
<1>3. snap \in Snapshot
  BY <1>2, SnapshotType, ChangedType
<1>4. TypeOK'
  BY <1>1, <1>2, <1>3 DEF TypeInv, TypeOK, Session, Op, Background
<1>5. \A u \in Tool : \A i \in DOMAIN history[u] :
        i \in DOMAIN history'[u] /\ history'[u][i] = history[u][i]
  BY <1>1, <1>2, <1>3 DEF TypeInv, TypeOK
<1>6. ASSUME NEW q \in Request PROVE SessionOK(q)'
  <2>1. CASE q = r
    <3>1. req'[q] = Background(t) /\ Exists(t)
      BY <1>1, <2>1 DEF TypeInv, TypeOK, SessionsOK, SessionOK
    <3>. QED BY <3>1, <1>2 DEF SessionOK, Background
  <2>2. CASE q # r
    <3>1. req'[q] = req[q]
      BY <1>1, <2>2 DEF TypeInv, TypeOK
    <3>. QED BY <3>1, <1>2, <1>5 DEF TypeInv, SessionsOK, SessionOK
  <2>. QED BY <2>1, <2>2
<1>. QED BY <1>4, <1>6 DEF TypeInv, SessionsOK

(* DELETE loads a row that is not deleted yet.                             *)
LEMMA DeprecateLoadTypeInv ==
  ASSUME TypeInv, NEW r \in Request, DeprecateLoad(r)
  PROVE  TypeInv'
<1>1. PICK t \in Tool :
        /\ Live(t)
        /\ req' = [req EXCEPT ![r] =
                     [op |-> "deprecate", tool |-> t, seen |-> tool[t],
                      mine |-> Deprecated(tool[t])]]
  BY DEF DeprecateLoad
<1>2. UNCHANGED <<tool, history>>
  BY DEF DeprecateLoad
<1>3. Exists(t) /\ tool[t] \in Row /\ tool[t].is_deleted = FALSE
  BY <1>1 DEF Live, Exists, TypeInv, TypeOK, Row
<1>4. /\ Deprecated(tool[t]) \in Row
      /\ Deprecated(tool[t]).description = tool[t].description
      /\ Deprecated(tool[t]).input_schema = tool[t].input_schema
      /\ Deprecated(tool[t]).version = tool[t].version
      /\ Deprecated(tool[t]).is_deleted = TRUE
  BY <1>3, HandlerRows
<1>5. TypeOK'
  BY <1>1, <1>2, <1>3, <1>4 DEF TypeInv, TypeOK, Session, Op
<1>6. ASSUME NEW q \in Request PROVE SessionOK(q)'
  <2>1. CASE q = r
    BY <1>1, <1>2, <1>3, <1>4, <2>1 DEF TypeInv, TypeOK, SessionOK, Exists
  <2>2. CASE q # r
    BY <1>1, <1>2, <2>2 DEF TypeInv, TypeOK, SessionsOK, SessionOK, Exists
  <2>. QED BY <2>1, <2>2
<1>. QED BY <1>5, <1>6 DEF TypeInv, SessionsOK

(* A request that ends keeps the sessions of the others.                   *)
LEMMA EndTypeInv ==
  ASSUME TypeInv, NEW r \in Request,
         req' = [req EXCEPT ![r] = Idle],
         tool' \in [Tool -> Row \cup {NoRow}],
         \A u \in Tool : Exists(u) => Exists(u)',
         UNCHANGED history
  PROVE  TypeInv'
<1>1. TypeOK'
  BY DEF TypeInv, TypeOK, Session, Op, Idle
<1>2. ASSUME NEW q \in Request PROVE SessionOK(q)'
  <2>1. CASE q = r
    BY <2>1 DEF TypeInv, TypeOK, SessionOK, Idle
  <2>2. CASE q # r
    <3>1. req'[q] = req[q]
      BY <2>2 DEF TypeInv, TypeOK
    <3>. QED BY <3>1 DEF TypeInv, SessionsOK, SessionOK
  <2>. QED BY <2>1, <2>2
<1>. QED BY <1>1, <1>2 DEF TypeInv, SessionsOK

(* A background analysis keeps all but the embedding columns.              *)
LEMMA BackgroundRows ==
  ASSUME TypeInv, NEW r \in Request, BackgroundAnalysis(r)
  PROVE  /\ tool' \in [Tool -> Row \cup {NoRow}]
         /\ \A u \in Tool : Exists(u) =>
              /\ Exists(u)'
              /\ tool'[u].key = tool[u].key
              /\ tool'[u].description = tool[u].description
              /\ tool'[u].input_schema = tool[u].input_schema
              /\ tool'[u].version = tool[u].version
              /\ tool'[u].is_deleted = tool[u].is_deleted
         /\ \A u \in Tool : Exists(u)' => Exists(u)
<1>. DEFINE t == req[r].tool
<1>1. PICK h \in Hash \cup {None}, e \in Embedding \cup {None} :
        tool' = [tool EXCEPT ![t] = Embedded(@, h, e)]
  BY DEF BackgroundAnalysis
<1>2. t \in Tool /\ tool[t] \in Row
  BY DEF BackgroundAnalysis, TypeInv, TypeOK, SessionsOK, SessionOK, Exists
<1>3. /\ Embedded(tool[t], h, e) \in Row
      /\ Embedded(tool[t], h, e).key = tool[t].key
      /\ Embedded(tool[t], h, e).description = tool[t].description
      /\ Embedded(tool[t], h, e).input_schema = tool[t].input_schema
      /\ Embedded(tool[t], h, e).version = tool[t].version
      /\ Embedded(tool[t], h, e).is_deleted = tool[t].is_deleted
  BY <1>2, HandlerRows
<1>. QED BY <1>1, <1>2, <1>3, NoRowAssumption DEF TypeInv, TypeOK, Exists

(* Every step keeps the types and what the sessions remember.              *)
LEMMA NextTypeInv ==
  ASSUME TypeInv, HistoryHasNoGap, [Next]_vars
  PROVE  TypeInv'
<1>1. ASSUME NEW r \in Request, RegisterCheck(r) PROVE TypeInv'
  BY <1>1, RegisterCheckTypeInv
<1>2. ASSUME NEW r \in Request, RegisterInsert(r) PROVE TypeInv'
  BY <1>2, RegisterInsertTypeInv
<1>3. ASSUME NEW r \in Request, RegisterRefused(r) PROVE TypeInv'
  BY <1>3, EndTypeInv DEF RegisterRefused, TypeInv, TypeOK, Exists
<1>4. ASSUME NEW r \in Request, UpdateLoad(r) PROVE TypeInv'
  BY <1>4, UpdateLoadTypeInv
<1>5. ASSUME NEW r \in Request, UpdateCommit(r) PROVE TypeInv'
  BY <1>5, UpdateCommitTypeInv
<1>6. ASSUME NEW r \in Request, DeprecateLoad(r) PROVE TypeInv'
  BY <1>6, DeprecateLoadTypeInv
<1>7. ASSUME NEW r \in Request, DeprecateCommit(r) PROVE TypeInv'
  BY <1>7, FlushedRow, EndTypeInv DEF DeprecateCommit
<1>8. ASSUME NEW r \in Request, Abandon(r) PROVE TypeInv'
  BY <1>8, EndTypeInv DEF Abandon, TypeInv, TypeOK, Exists
<1>9. ASSUME NEW r \in Request, BackgroundAnalysis(r) PROVE TypeInv'
  BY <1>9, BackgroundRows, EndTypeInv DEF BackgroundAnalysis
<1>10. CASE UNCHANGED vars
  BY <1>10 DEF vars, TypeInv, TypeOK, SessionsOK, SessionOK, Exists
<1>. QED
  BY <1>1, <1>2, <1>3, <1>4, <1>5, <1>6, <1>7, <1>8, <1>9, <1>10
  DEF Next, Handler

-----------------------------------------------------------------------------
(* Every step is one of three kinds for a given tool: a first row, an      *)
(* append to the history together with the UPDATE, or a step that leaves   *)
(* the history, the key and the definition alone.                          *)

Inserted(t) ==
  \E row \in Row :
    /\ ~Exists(t)
    /\ ~KeyTaken(row.key)
    /\ row.version = 1
    /\ tool' = [tool EXCEPT ![t] = row]
    /\ history' = [history EXCEPT ![t] = <<SnapshotOf(row, {})>>]

Updated(t) ==
  \E seen, mine \in Row :
    /\ Exists(t)
    /\ mine.version = seen.version + 1
    /\ mine.is_deleted = seen.is_deleted
    /\ \E i \in DOMAIN history[t] : history[t][i].version = seen.version
    /\ tool' = [tool EXCEPT ![t] = Flush(tool[t], seen, mine)]
    /\ history' = [history EXCEPT ![t] =
                     Append(@, SnapshotOf(mine, Changed(seen, mine)))]

Kept ==
  /\ history' = history
  /\ \A t \in Tool : Exists(t)' <=> Exists(t)
  /\ \A t \in Tool : Exists(t) =>
       /\ tool'[t].key = tool[t].key
       /\ tool'[t].description = tool[t].description
       /\ tool'[t].input_schema = tool[t].input_schema
       /\ tool'[t].version = tool[t].version
       /\ tool[t].is_deleted => tool'[t].is_deleted

(* Every step inserts a row, updates one, or keeps all definitions.        *)
LEMMA StepKinds ==
  ASSUME TypeInv, [Next]_vars
  PROVE  Kept \/ \E t \in Tool : Inserted(t) \/ Updated(t)
<1>1. ASSUME NEW r \in Request, RegisterInsert(r)
      PROVE  \E t \in Tool : Inserted(t)
  BY <1>1 DEF RegisterInsert, Inserted, TypeInv, SessionsOK, SessionOK
<1>2. ASSUME NEW r \in Request, UpdateCommit(r)
      PROVE  \E t \in Tool : Updated(t)
  BY <1>2 DEF UpdateCommit, Updated, TypeInv, SessionsOK, SessionOK
<1>3. ASSUME NEW r \in Request, DeprecateCommit(r)
      PROVE  Kept
  <2>. DEFINE u == req[r].tool
              new == Flush(tool[u], req[r].seen, req[r].mine)
  <2>1. /\ u \in Tool
        /\ tool[u] \in Row
        /\ req[r].seen \in Row
        /\ req[r].mine \in Row
        /\ tool'[u] = new
        /\ \A t \in Tool : t # u => tool'[t] = tool[t]
    BY <1>3, FlushedRow DEF DeprecateCommit
  <2>2. /\ req[r].mine.description = req[r].seen.description
        /\ req[r].mine.input_schema = req[r].seen.input_schema
        /\ req[r].mine.version = req[r].seen.version
        /\ req[r].mine.is_deleted = TRUE
    BY <1>3 DEF DeprecateCommit, TypeInv, SessionsOK, SessionOK
  <2>3. /\ new \in Row
        /\ new.key = tool[u].key
        /\ new.description = tool[u].description
        /\ new.input_schema = tool[u].input_schema
        /\ new.version = tool[u].version
        /\ tool[u].is_deleted => new.is_deleted
    BY <2>1, <2>2, FlushFacts DEF Col
  <2>. HIDE DEF new
  <2>. QED BY <1>3, <2>1, <2>3, NoRowAssumption DEF Kept, Exists, DeprecateCommit
<1>4. ASSUME NEW r \in Request, BackgroundAnalysis(r)
      PROVE  Kept
  BY <1>4, BackgroundRows DEF Kept, BackgroundAnalysis
<1>5. ASSUME UNCHANGED <<tool, history>>
      PROVE  Kept
  BY <1>5 DEF Kept, Exists
<1>. QED
  BY <1>1, <1>2, <1>3, <1>4, <1>5
  DEF Next, Handler, RegisterCheck, RegisterRefused, UpdateLoad,
      DeprecateLoad, Abandon, vars

(* What the two kinds of step that write the history make of the row.      *)
LEMMA UpdatedRow ==
  ASSUME TypeInv, NEW t \in Tool, NEW seen \in Row, NEW mine \in Row,
         Exists(t),
         mine.is_deleted = seen.is_deleted,
         tool' = [tool EXCEPT ![t] = Flush(tool[t], seen, mine)]
  PROVE  /\ tool'[t] \in Row
         /\ tool'[t].key = tool[t].key
         /\ tool'[t].is_deleted = tool[t].is_deleted
         /\ tool'[t].description =
              Col(tool[t].description, seen.description, mine.description)
         /\ tool'[t].input_schema =
              Col(tool[t].input_schema, seen.input_schema, mine.input_schema)
         /\ tool'[t].version = Col(tool[t].version, seen.version, mine.version)
         /\ \A u \in Tool : u # t => tool'[u] = tool[u]
<1>1. tool[t] \in Row /\ tool'[t] = Flush(tool[t], seen, mine)
  BY DEF TypeInv, TypeOK, Exists
<1>2. \A u \in Tool : u # t => tool'[u] = tool[u]
  BY DEF TypeInv, TypeOK
<1>3. Col(tool[t].is_deleted, seen.is_deleted, mine.is_deleted) =
        tool[t].is_deleted
  BY DEF Col
<1>. QED BY <1>1, <1>2, <1>3, FlushFacts

-----------------------------------------------------------------------------
(* Every step keeps the keys unique.                                       *)
LEMMA NextUniqueName ==
  ASSUME TypeInv, UniqueName, [Next]_vars
  PROVE  UniqueName'
<1>1. CASE Kept
  BY <1>1 DEF Kept, UniqueName, Exists
<1>2. ASSUME NEW t \in Tool, Inserted(t) PROVE UniqueName'
  <2>1. PICK row \in Row :
          /\ ~KeyTaken(row.key)
          /\ tool' = [tool EXCEPT ![t] = row]
    BY <1>2 DEF Inserted
  <2>2. tool'[t] = row /\ \A u \in Tool : u # t => tool'[u] = tool[u]
    BY <2>1 DEF TypeInv, TypeOK
  <2>. QED BY <2>1, <2>2 DEF UniqueName, Exists, KeyTaken
<1>3. ASSUME NEW t \in Tool, Updated(t) PROVE UniqueName'
  <2>1. PICK seen \in Row, mine \in Row :
          /\ Exists(t)
          /\ mine.is_deleted = seen.is_deleted
          /\ tool' = [tool EXCEPT ![t] = Flush(tool[t], seen, mine)]
    BY <1>3 DEF Updated
  <2>2. /\ tool'[t].key = tool[t].key
        /\ \A u \in Tool : u # t => tool'[u] = tool[u]
    BY <2>1, UpdatedRow
  <2>. QED BY <2>1, <2>2 DEF UniqueName, Exists
<1>. QED BY <1>1, <1>2, <1>3, StepKinds

(* Every step keeps the histories without a gap.                           *)
LEMMA NextHistoryHasNoGap ==
  ASSUME TypeInv, HistoryHasNoGap, [Next]_vars
  PROVE  HistoryHasNoGap'
<1>1. CASE Kept
  BY <1>1 DEF Kept, HistoryHasNoGap
<1>2. ASSUME NEW t \in Tool, Inserted(t) PROVE HistoryHasNoGap'
  <2>1. PICK row \in Row :
          /\ row.version = 1
          /\ tool' = [tool EXCEPT ![t] = row]
          /\ history' = [history EXCEPT ![t] = <<SnapshotOf(row, {})>>]
    BY <1>2 DEF Inserted
  <2>2. /\ tool'[t].version = 1
        /\ history'[t] = <<SnapshotOf(row, {})>>
        /\ SnapshotOf(row, {}).version = 1
        /\ \A u \in Tool : u # t =>
             tool'[u] = tool[u] /\ history'[u] = history[u]
    BY <2>1 DEF TypeInv, TypeOK, SnapshotOf
  <2>3. ASSUME NEW u \in Tool, u = t
        PROVE  /\ \E i \in DOMAIN history'[u] :
                    history'[u][i].version = tool'[u].version
               /\ \A i \in DOMAIN history'[u] : history'[u][i].version = 1
    BY <2>2, <2>3
  <2>. QED BY <2>2, <2>3 DEF HistoryHasNoGap, Exists
<1>3. ASSUME NEW t \in Tool, Updated(t) PROVE HistoryHasNoGap'
  <2>1. PICK seen \in Row, mine \in Row :
          /\ Exists(t)
          /\ mine.version = seen.version + 1
          /\ mine.is_deleted = seen.is_deleted
          /\ \E i \in DOMAIN history[t] : history[t][i].version = seen.version
          /\ tool' = [tool EXCEPT ![t] = Flush(tool[t], seen, mine)]
          /\ history' = [history EXCEPT ![t] =
                           Append(@, SnapshotOf(mine, Changed(seen, mine)))]
    BY <1>3 DEF Updated
  <2>. DEFINE snap == SnapshotOf(mine, Changed(seen, mine))
              n == Len(history[t])
  <2>2. /\ history[t] \in Seq(Snapshot)
        /\ snap \in Snapshot
        /\ snap.version = mine.version
    BY SnapshotType, ChangedType DEF TypeInv, TypeOK, SnapshotOf
  <2>3. /\ history'[t] = Append(history[t], snap)
        /\ \A u \in Tool : u # t => history'[u] = history[u]
    BY <2>1 DEF TypeInv, TypeOK
  <2>. HIDE DEF snap
  <2>4. /\ DOMAIN history'[t] = 1 .. n + 1
        /\ DOMAIN history[t] = 1 .. n
        /\ n \in Nat
        /\ history'[t][n + 1] = snap
        /\ \A i \in 1 .. n : history'[t][i] = history[t][i]
    BY <2>2, <2>3
  <2>5. /\ seen.version \in Nat \ {0}
        /\ mine.version # seen.version
        /\ tool'[t].version = mine.version
    <3>1. seen.version \in Nat \ {0} /\ mine.version # seen.version
      BY <2>1 DEF Row
    <3>2. tool'[t].version = Col(tool[t].version, seen.version, mine.version)
      BY <2>1, UpdatedRow
    <3>. QED BY <3>1, <3>2 DEF Col
  <2>6. \A u \in Tool : u # t => tool'[u] = tool[u]
    BY <2>1, UpdatedRow
  <2>7. ASSUME NEW i \in DOMAIN history'[t], history'[t][i].version > 1
        PROVE  \E j \in 1 .. i - 1 :
                 history'[t][j].version = history'[t][i].version - 1
    <3>1. CASE i = n + 1
      <4>1. PICK j \in 1 .. n : history[t][j].version = seen.version
        BY <2>1, <2>4
      <4>2. history'[t][i].version - 1 = seen.version
        BY <2>1, <2>2, <2>4, <2>5, <3>1
      <4>. QED BY <2>4, <3>1, <4>1, <4>2
    <3>2. CASE i \in 1 .. n
      <4>1. PICK j \in 1 .. i - 1 :
              history[t][j].version = history[t][i].version - 1
        BY <2>4, <2>7, <3>2 DEF HistoryHasNoGap
      <4>2. j \in 1 .. n /\ j \in 1 .. i - 1
        BY <2>4, <3>2, <4>1
      <4>3. history'[t][i] = history[t][i] /\ history'[t][j] = history[t][j]
        BY <2>4, <3>2, <4>2
      <4>. QED BY <4>1, <4>2, <4>3
    <3>. QED BY <2>4, <3>1, <3>2
  <2>8. \E i \in DOMAIN history'[t] : history'[t][i].version = tool'[t].version
    BY <2>2, <2>4, <2>5
  <2>9. ASSUME NEW u \in Tool, u # t
        PROVE  /\ Exists(u)' => \E i \in DOMAIN history'[u] :
                                  history'[u][i].version = tool'[u].version
               /\ \A i \in DOMAIN history'[u] :
                    history'[u][i].version > 1 =>
                      \E j \in 1 .. i - 1 :
                        history'[u][j].version = history'[u][i].version - 1
    BY <2>3, <2>6, <2>9 DEF HistoryHasNoGap, Exists
  <2>. QED BY <2>7, <2>8, <2>9 DEF HistoryHasNoGap
<1>. QED BY <1>1, <1>2, <1>3, StepKinds

-----------------------------------------------------------------------------
(* The two halves of DiffsGiveLiveDefinition, one for each column.         *)
DescriptionShown(t) ==
  \E i \in DOMAIN history[t] :
    /\ LastSet(t, "description", i)
    /\ i = 1 \/ "description" \in history[t][i].changed
    /\ tool[t].description = history[t][i].description

SchemaShown(t) ==
  \E i \in DOMAIN history[t] :
    /\ LastSet(t, "input_schema", i)
    /\ i = 1 \/ "input_schema" \in history[t][i].changed
    /\ tool[t].input_schema = history[t][i].input_schema

(* A diff names exactly the columns whose session value differs.           *)
LEMMA ChangedColumns ==
  ASSUME NEW seen, NEW mine
  PROVE  /\ "description" \in Changed(seen, mine)
              <=> mine.description # seen.description
         /\ "input_schema" \in Changed(seen, mine)
              <=> mine.input_schema # seen.input_schema
BY DEF Changed, Column

(* Every step keeps the live definition what the diffs say.                *)
LEMMA NextDiffsGiveLiveDefinition ==
  ASSUME TypeInv, DiffsGiveLiveDefinition, [Next]_vars
  PROVE  DiffsGiveLiveDefinition'
<1>. USE DEF DescriptionShown, SchemaShown
<1>1. \A u \in Tool : Exists(u) => DescriptionShown(u) /\ SchemaShown(u)
  BY DEF DiffsGiveLiveDefinition
<1>2. SUFFICES ASSUME NEW u \in Tool, Exists(u)'
               PROVE  DescriptionShown(u)' /\ SchemaShown(u)'
  BY DEF DiffsGiveLiveDefinition
<1>3. CASE Kept
  BY <1>1, <1>2, <1>3 DEF Kept, LastSet
<1>4. ASSUME NEW t \in Tool, Inserted(t)
      PROVE  DescriptionShown(u)' /\ SchemaShown(u)'
  <2>1. PICK row \in Row :
          /\ tool' = [tool EXCEPT ![t] = row]
          /\ history' = [history EXCEPT ![t] = <<SnapshotOf(row, {})>>]
    BY <1>4 DEF Inserted
  <2>2. CASE u = t
    <3>1. /\ tool'[u] = row
          /\ history'[u] = <<SnapshotOf(row, {})>>
          /\ SnapshotOf(row, {}).description = row.description
          /\ SnapshotOf(row, {}).input_schema = row.input_schema
      BY <2>1, <2>2 DEF TypeInv, TypeOK, SnapshotOf
    <3>2. DOMAIN history'[u] = {1} /\ history'[u][1] = SnapshotOf(row, {})
      BY <3>1
    <3>. QED BY <3>1, <3>2 DEF LastSet
  <2>3. CASE u # t
    <3>1. tool'[u] = tool[u] /\ history'[u] = history[u]
      BY <2>1, <2>3 DEF TypeInv, TypeOK
    <3>. QED BY <1>1, <1>2, <3>1 DEF LastSet, Exists
  <2>. QED BY <2>2, <2>3
<1>5. ASSUME NEW t \in Tool, Updated(t)
      PROVE  DescriptionShown(u)' /\ SchemaShown(u)'
  <2>1. PICK seen \in Row, mine \in Row :
          /\ Exists(t)
          /\ mine.is_deleted = seen.is_deleted
          /\ tool' = [tool EXCEPT ![t] = Flush(tool[t], seen, mine)]
          /\ history' = [history EXCEPT ![t] =
                           Append(@, SnapshotOf(mine, Changed(seen, mine)))]
    BY <1>5 DEF Updated
  <2>. DEFINE snap == SnapshotOf(mine, Changed(seen, mine))
              n == Len(history[t])
  <2>2. /\ snap \in Snapshot
        /\ snap.description = mine.description
        /\ snap.input_schema = mine.input_schema
        /\ snap.changed = Changed(seen, mine)
    BY SnapshotType, ChangedType DEF SnapshotOf
  <2>3. CASE u # t
    <3>1. tool'[u] = tool[u] /\ history'[u] = history[u]
      BY <2>1, <2>3, UpdatedRow DEF TypeInv, TypeOK
    <3>. QED BY <1>1, <1>2, <3>1 DEF LastSet, Exists
  <2>4. CASE u = t
    <3>1. history'[u] = Append(history[u], snap) /\ history[u] \in Seq(Snapshot)
      BY <2>1, <2>4 DEF TypeInv, TypeOK
    <3>. HIDE DEF snap
    <3>2. /\ n \in Nat
          /\ DOMAIN history[u] = 1 .. n
          /\ DOMAIN history'[u] = 1 .. n + 1
          /\ history'[u][n + 1] = snap
          /\ \A i \in 1 .. n : history'[u][i] = history[u][i]
      BY <2>2, <2>4, <3>1
    <3>3. /\ tool'[u].description =
               Col(tool[u].description, seen.description, mine.description)
          /\ tool'[u].input_schema =
               Col(tool[u].input_schema, seen.input_schema, mine.input_schema)
      BY <2>1, <2>4, UpdatedRow
    <3>4. DescriptionShown(u) /\ SchemaShown(u)
      BY <1>1, <2>1, <2>4
    <3>5. DescriptionShown(u)'
      <4>1. CASE mine.description # seen.description
        <5>1. "description" \in snap.changed
          BY <2>2, <4>1, ChangedColumns
        <5>. QED BY <2>2, <3>2, <3>3, <4>1, <5>1 DEF LastSet, Col
      <4>2. CASE mine.description = seen.description
        <5>1. "description" \notin snap.changed
          BY <2>2, <4>2, ChangedColumns
        <5>2. tool'[u].description = tool[u].description
          BY <3>3, <4>2 DEF Col
        <5>3. PICK i \in 1 .. n :
                /\ \A j \in 1 .. n :
                     j > i => "description" \notin history[u][j].changed
                /\ i = 1 \/ "description" \in history[u][i].changed
                /\ tool[u].description = history[u][i].description
          BY <3>2, <3>4 DEF LastSet
        <5>4. \A j \in 1 .. n + 1 :
                j > i => "description" \notin history'[u][j].changed
          BY <3>2, <5>1, <5>3
        <5>5. i \in 1 .. n + 1 /\ history'[u][i] = history[u][i]
          BY <3>2
        <5>. QED BY <3>2, <5>2, <5>3, <5>4, <5>5 DEF LastSet
      <4>. QED BY <4>1, <4>2
    <3>6. SchemaShown(u)'
      <4>1. CASE mine.input_schema # seen.input_schema
        <5>1. "input_schema" \in snap.changed
          BY <2>2, <4>1, ChangedColumns
        <5>. QED BY <2>2, <3>2, <3>3, <4>1, <5>1 DEF LastSet, Col
      <4>2. CASE mine.input_schema = seen.input_schema
        <5>1. "input_schema" \notin snap.changed
          BY <2>2, <4>2, ChangedColumns
        <5>2. tool'[u].input_schema = tool[u].input_schema
          BY <3>3, <4>2 DEF Col
        <5>3. PICK i \in 1 .. n :
                /\ \A j \in 1 .. n :
                     j > i => "input_schema" \notin history[u][j].changed
                /\ i = 1 \/ "input_schema" \in history[u][i].changed
                /\ tool[u].input_schema = history[u][i].input_schema
          BY <3>2, <3>4 DEF LastSet
        <5>4. \A j \in 1 .. n + 1 :
                j > i => "input_schema" \notin history'[u][j].changed
          BY <3>2, <5>1, <5>3
        <5>5. i \in 1 .. n + 1 /\ history'[u][i] = history[u][i]
          BY <3>2
        <5>. QED BY <3>2, <5>2, <5>3, <5>4, <5>5 DEF LastSet
      <4>. QED BY <4>1, <4>2
    <3>. QED BY <3>5, <3>6
  <2>. QED BY <2>3, <2>4
<1>. QED BY <1>3, <1>4, <1>5, StepKinds

-----------------------------------------------------------------------------
IInv == TypeInv /\ UniqueName /\ HistoryHasNoGap /\ DiffsGiveLiveDefinition

(* The inductive invariant holds of every behaviour.                       *)
LEMMA Invariance == Spec => []IInv
<1>1. Init => IInv
  BY InitTypeInv
  DEF Init, IInv, UniqueName, HistoryHasNoGap, DiffsGiveLiveDefinition, Exists
<1>2. IInv /\ [Next]_vars => IInv'
  BY NextTypeInv, NextUniqueName, NextHistoryHasNoGap,
     NextDiffsGiveLiveDefinition
  DEF IInv
<1>. QED BY <1>1, <1>2, PTL DEF Spec

(* The registry keeps its types: whatever the requests do, every row is a  *)
(* row, every history a sequence of snapshots.                             *)
THEOREM TypeCorrect == Spec => []TypeOK
<1>1. IInv => TypeOK
  BY DEF IInv, TypeInv
<1>. QED BY <1>1, Invariance, PTL

(* Racing registrations never leave two rows with one key.                 *)
THEOREM NamesAreUnique == Spec => []UniqueName
<1>1. IInv => UniqueName
  BY DEF IInv
<1>. QED BY <1>1, Invariance, PTL

(* Racing updates may repeat a version number, and never skip one.         *)
THEOREM NoVersionIsSkipped == Spec => []HistoryHasNoGap
<1>1. IInv => HistoryHasNoGap
  BY DEF IInv
<1>. QED BY <1>1, Invariance, PTL

(* However updates overlap, replaying the diffs of the history gives the   *)
(* description and the schema of the live row.                             *)
THEOREM DiffsReplay == Spec => []DiffsGiveLiveDefinition
<1>1. IInv => DiffsGiveLiveDefinition
  BY DEF IInv
<1>. QED BY <1>1, Invariance, PTL

(* A deprecated tool stays deprecated and a tool keeps its key, whatever   *)
(* the requests in progress had loaded before.                             *)
THEOREM DeprecatedForGood == Spec => DeprecationIsFinal
<1>. DEFINE A == \A t \in Tool : Exists(t) =>
                   /\ Exists(t)'
                   /\ tool'[t].key = tool[t].key
                   /\ tool[t].is_deleted => tool'[t].is_deleted
<1>1. IInv /\ [Next]_vars => [A]_vars
  <2>1. SUFFICES ASSUME TypeInv, [Next]_vars PROVE A
    BY DEF IInv
  <2>2. CASE Kept
    BY <2>2 DEF Kept
  <2>3. ASSUME NEW t \in Tool, Inserted(t) PROVE A
    <3>1. /\ ~Exists(t)
          /\ \A u \in Tool : u # t => tool'[u] = tool[u]
      BY <2>1, <2>3 DEF Inserted, TypeInv, TypeOK
    <3>. QED BY <3>1 DEF Exists
  <2>4. ASSUME NEW t \in Tool, Updated(t) PROVE A
    <3>1. PICK seen \in Row, mine \in Row :
            /\ Exists(t)
            /\ mine.is_deleted = seen.is_deleted
            /\ tool' = [tool EXCEPT ![t] = Flush(tool[t], seen, mine)]
      BY <2>4 DEF Updated
    <3>2. /\ tool'[t] \in Row
          /\ tool'[t].key = tool[t].key
          /\ tool'[t].is_deleted = tool[t].is_deleted
          /\ \A u \in Tool : u # t => tool'[u] = tool[u]
      BY <2>1, <3>1, UpdatedRow
    <3>. QED BY <3>2, NoRowAssumption DEF Exists
  <2>. QED BY <2>1, <2>2, <2>3, <2>4, StepKinds
<1>. QED BY <1>1, Invariance, PTL DEF Spec, DeprecationIsFinal
=============================================================================
