------------------------------- MODULE McpSync ------------------------------
(***************************************************************************)
(* The diff of core/sync/mcp_sync.py between the tools an MCP server       *)
(* lists and those stored for it.  A report only names tools: the people   *)
(* who read it register, update and deprecate them one at a time through   *)
(* the API of the registry.                                                *)
(***************************************************************************)
EXTENDS Naturals, Sequences, FiniteSets, Functions

CONSTANTS
  RemoteName,     \* names of the tools of one server
  Definition,     \* what it may list for one: description and input_schema
  Stripped,       \* each description without the blanks around it
  NoSchema,       \* {}
  Bare,           \* the names that may be registered, without such blanks
  Long,           \* descriptions that are long enough for the registry
  Registrable,    \* schemas with a type or properties
  MaxListed       \* bound: entries of a list

ASSUME McpSyncAssumption ==
  /\ \A d \in Definition :
       /\ d = [description |-> d.description, input_schema |-> d.input_schema]
       /\ d.description \in DOMAIN Stripped
  /\ DOMAIN Bare \subseteq RemoteName
  /\ \A n \in DOMAIN Bare : Bare[n] \in DOMAIN Bare
  /\ NoSchema \notin Registrable

VARIABLES
  listed,    \* what the server listed at the latest sync: pairs of a name
             \* and a definition
  row,       \* the row of each name that has one, its definition and status
  report     \* what the report of that sync names and is still to be done

syncVars == <<listed, row, report>>

-----------------------------------------------------------------------------
\* Of two entries with one name the last one counts.
RemoteMap(list) ==
  LET last(n) == CHOOSE i \in DOMAIN list :
                   list[i][1] = n /\ \A j \in DOMAIN list : list[j][1] = n => j <= i
  IN  [n \in {list[i][1] : i \in DOMAIN list} |-> list[last(n)][2]]

\* The tools a sync loads: active ones only.
DbMap ==
  [n \in {m \in DOMAIN row : row[m].status = "active"} |-> row[n].definition]

\* Fault: only the stored description is stripped.
HasChangedUnstripped(new, old) ==
  \/ new.description # Stripped[old.description]
  \/ old.input_schema # NoSchema /\ new.input_schema # old.input_schema

\* A stored tool without a schema is not compared by schema.
HasChanged(new, old) ==
  \/ Stripped[new.description] # Stripped[old.description]
  \/ old.input_schema # NoSchema /\ new.input_schema # old.input_schema

Diff(map, db) ==
  LET both == DOMAIN map \cap DOMAIN db
      changed == {n \in both : HasChanged(map[n], db[n])}
  IN  [added |-> DOMAIN map \ DOMAIN db, removed |-> DOMAIN db \ DOMAIN map,
       updated |-> changed, unchanged |-> both \ changed]

SyncInit ==
  /\ listed = <<>>
  /\ row = <<>>
  /\ report = Diff(<<>>, <<>>)

\* The server may list anything at any sync.
Sync(list) ==
  /\ listed' = list
  /\ report' = Diff(RemoteMap(list), DbMap)
  /\ UNCHANGED row

-----------------------------------------------------------------------------
RowOf(definition, status) == [definition |-> definition, status |-> status]

Write(n, r) == row' = [m \in DOMAIN row \cup {n} |-> IF m = n THEN r ELSE row[m]]

Strike(n) ==
  report' = [added |-> report.added \ {n}, removed |-> report.removed \ {n},
             updated |-> report.updated \ {n},
             unchanged |-> report.unchanged \cup ({n} \cap DOMAIN RemoteMap(listed))]

\* What ToolRegisterRequest accepts; any other body is answered with a 422.
Acceptable(n, d) ==
  n \in DOMAIN Bare /\ d.description \in Long /\ d.input_schema \in Registrable

(* The name, without its blanks, must have no row, deprecated or not; the  *)
(* policy may ask for an approval, until which the tool is not active.     *)
RegisterAdded(n) ==
  /\ n \in report.added
  /\ Acceptable(n, RemoteMap(listed)[n])
  /\ Bare[n] \notin DOMAIN row
  /\ UNCHANGED listed
  /\ \/ Write(Bare[n], RowOf(RemoteMap(listed)[n], "active")) /\ Strike(n)
     \/ Write(Bare[n], RowOf(RemoteMap(listed)[n], "pending_approval")) /\ UNCHANGED report

\* A PUT that brings a definition: an empty schema is not written.
Updated(old, new) ==
  [description |-> new.description,
   input_schema |-> IF new.input_schema = NoSchema THEN old.input_schema
                    ELSE new.input_schema]

Put(n, d, status) ==
  /\ d.description \in Long
  /\ Write(n, RowOf(Updated(row[n].definition, d), status))

\* The PUT that makes it active brings the definition that is listed.
Activate(n) ==
  /\ n \in report.added \cap DOMAIN Bare
  /\ Bare[n] \in DOMAIN row
  /\ row[Bare[n]].status = "pending_approval"
  /\ Put(Bare[n], RemoteMap(listed)[n], "active")
  /\ Strike(n)
  /\ UNCHANGED listed

UpdateChanged(n) ==
  /\ n \in report.updated
  /\ Put(n, RemoteMap(listed)[n], row[n].status)
  /\ Strike(n)
  /\ UNCHANGED listed

DeprecateRemoved(n) ==
  /\ n \in report.removed
  /\ Write(n, RowOf(row[n].definition, "deprecated"))
  /\ Strike(n)
  /\ UNCHANGED listed

SyncNext ==
  \/ \E k \in 0..MaxListed :
       \E list \in [1..k -> RemoteName \X Definition] : Sync(list)
  \/ \E n \in RemoteName :
       \/ RegisterAdded(n)
       \/ Activate(n)
       \/ UpdateChanged(n)
       \/ DeprecateRemoved(n)

SyncSpec == SyncInit /\ [][SyncNext]_syncVars

-----------------------------------------------------------------------------
\* A PUT may leave the description of one listing with the schema of another.
Stored ==
  [description : {d.description : d \in Definition},
   input_schema : {d.input_schema : d \in Definition}]

SyncTypeOK ==
  /\ \A i \in DOMAIN listed : listed[i] \in RemoteName \X Definition
  /\ DOMAIN row \subseteq RemoteName
  /\ \A n \in DOMAIN row :
       row[n] \in [definition : Stored,
                   status : {"active", "pending_approval", "deprecated"}]
  /\ report \in [{"added", "removed", "updated", "unchanged"} -> SUBSET RemoteName]

(* What the people who act on a report cannot settle: a tool listed with   *)
(* no schema whose row has one, and a name that is stored without its      *)
(* blanks, with the name it is stored by.                                  *)
Unsettled(map, db) ==
  LET blank == {n \in DOMAIN map \cap DOMAIN Bare : Bare[n] # n}
  IN  blank \cup {Bare[n] : n \in blank}
        \cup {n \in DOMAIN map \cap DOMAIN db :
                map[n].input_schema = NoSchema /\ db[n].input_schema # NoSchema}

(* Syncing converges: in whatever order the names of a report are acted    *)
(* on, and whatever the registry refuses of it, what is left of it is what *)
(* a further diff of the same list would report, except for the tools that *)
(* cannot be settled; and each tool that the server or the registry knows  *)
(* is on exactly one of its lists.                                         *)
SyncConverges ==
  LET map == RemoteMap(listed)
      diff == Diff(map, DbMap)
      lists == {diff.added, diff.removed, diff.updated, diff.unchanged}
  IN  /\ \A list \in DOMAIN diff :
           report[list] \ Unsettled(map, DbMap) = diff[list] \ Unsettled(map, DbMap)
      /\ UNION lists = DOMAIN map \cup DOMAIN DbMap
      /\ \A a, b \in lists : a = b \/ a \cap b = {}
=============================================================================
