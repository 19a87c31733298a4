------------------------- MODULE ConflictLifecycle --------------------------
(***************************************************************************)
(* The rows of `conflicts` (models/conflict.py) after an analysis has      *)
(* reported them: PATCH /conflicts/{id} of api/v1/conflicts.py, and the    *)
(* health score api/v1/health.py computes from them.                       *)
(*                                                                         *)
(* A PATCH is a session: it loads the row, checks, and writes at the       *)
(* commit the columns it changed, whatever was committed in between.       *)
(***************************************************************************)
EXTENDS Access, Severities, FiniteSets, Functions

CONSTANTS
  Conflict,     \* ids of conflict rows
  Detected,     \* severities the analyses report
  User, RoleOf, \* users with a request in progress, and their roles
  Sent,         \* strings a body may give as status
  NoConflict, None

OPEN == "open"
ACKNOWLEDGED == "acknowledged"
RESOLVED == "resolved"
SUPPRESSED == "suppressed"

ALL == {OPEN, ACKNOWLEDGED, RESOLVED, SUPPRESSED}

\* resolved_at stands for whether the column is set: no two PATCHes write
\* the same time.  resolution_notes is left out.
ConflictRow ==
  [severity : Severity, status : ALL, resolved_at : BOOLEAN,
   resolved_by : User \cup {None}]

ASSUME LifecycleAssumption ==
  /\ IsFiniteSet(Conflict)
  /\ Detected \subseteq Severity
  /\ None \notin User
  /\ NoConflict \notin Conflict
  /\ NoConflict \notin ConflictRow

\* A PATCH in progress: the row as loaded, and the status asked for.
Patch ==
  [conflict : Conflict \cup {NoConflict}, seen : ConflictRow \cup {NoConflict},
   status : ALL \cup {None}]

VARIABLES
  conflict,   \* the table: a row, or NoConflict, for each id
  patch       \* the PATCH of each user

lifecycleVars == <<conflict, patch>>

-----------------------------------------------------------------------------
RowAt(severity, status, resolved_at, resolved_by) ==
  [severity |-> severity, status |-> status, resolved_at |-> resolved_at,
   resolved_by |-> resolved_by]

PatchOf(c, seen, status) == [conflict |-> c, seen |-> seen, status |-> status]

NoPatch == PatchOf(NoConflict, NoConflict, None)

LifecycleInit ==
  /\ conflict = [c \in Conflict |-> NoConflict]
  /\ patch = [u \in User |-> NoPatch]

Reported(c) == conflict[c] # NoConflict

\* The commit of an analysis (see ConflictAnalysis).
Report(c, severity) ==
  /\ ~Reported(c)
  /\ conflict' = [conflict EXCEPT ![c] = RowAt(severity, OPEN, FALSE, None)]
  /\ UNCHANGED patch

\* Fault: the role is compared with the one the route asks for already.
MaySuppressAny(u, row) == HasMinimumRole(RoleOf[u], "reviewer")

MaySuppress(u, row) ==
  row.severity = "CRITICAL" => HasMinimumRole(RoleOf[u], "admin")

PatchLoad(u, c, status) ==
  /\ patch[u] = NoPatch
  /\ HasMinimumRole(RoleOf[u], "reviewer")
  /\ Reported(c)
  /\ status \in ALL
  /\ status = SUPPRESSED => MaySuppress(u, conflict[c])
  /\ patch' = [patch EXCEPT ![u] = PatchOf(c, conflict[c], status)]
  /\ UNCHANGED conflict

\* Fault: only RESOLVED counts as settled.
SettlesResolved(status) == status = RESOLVED

Settles(status) == status \in {RESOLVED, SUPPRESSED}

\* The UPDATE of a PATCH: the status if it differs from the one loaded, and
\* who settled the conflict, which no other status ever clears.
Patched(row, seen, status, u) ==
  RowAt(row.severity,
        IF status = seen.status THEN row.status ELSE status,
        row.resolved_at \/ Settles(status),
        IF Settles(status) /\ seen.resolved_by # u THEN u ELSE row.resolved_by)

PatchCommit(u) ==
  LET c == patch[u].conflict
      status == patch[u].status
  IN  /\ patch[u] # NoPatch
      /\ conflict' = [conflict EXCEPT ![c] = Patched(@, patch[u].seen, status, u)]
      /\ patch' = [patch EXCEPT ![u] = NoPatch]

\* The request fails or is cancelled: rollback.
PatchAbandon(u) ==
  /\ patch[u] # NoPatch
  /\ patch' = [patch EXCEPT ![u] = NoPatch]
  /\ UNCHANGED conflict

LifecycleNext ==
  \/ \E c \in Conflict, severity \in Detected : Report(c, severity)
  \/ \E u \in User :
       \/ \E c \in Conflict, status \in Sent : PatchLoad(u, c, status)
       \/ PatchCommit(u)
       \/ PatchAbandon(u)

LifecycleSpec == LifecycleInit /\ [][LifecycleNext]_lifecycleVars

-----------------------------------------------------------------------------
\* Fault: what is not settled counts as open.
OpenUntilSettled(row) == row # NoConflict /\ ~Settles(row.status)

Open(row) == row # NoConflict /\ row.status = OPEN

DEDUCTION == [CRITICAL |-> 20, HIGH |-> 10, MEDIUM |-> 5, LOW |-> 2, INFO |-> 0]

HealthScore ==
  LET open == {c \in Conflict : Open(conflict[c])}
      deductions == SumFunction([c \in open |-> DEDUCTION[conflict[c].severity]])
  IN  IF deductions > 100 THEN 0 ELSE 100 - deductions

-----------------------------------------------------------------------------
LifecycleTypeOK ==
  /\ conflict \in [Conflict -> ConflictRow \cup {NoConflict}]
  /\ patch \in [User -> Patch]

(* A conflict that is resolved or suppressed says that and by whom,        *)
(* although a PATCH writes only what differs from what it loaded, over     *)
(* whatever other PATCHes committed meanwhile.                             *)
SettledHasResolver ==
  \A c \in Conflict :
    Reported(c) /\ conflict[c].status \in {RESOLVED, SUPPRESSED} =>
      conflict[c].resolved_at /\ conflict[c].resolved_by # None

(* "Suppressing CRITICAL conflicts requires admin role": a CRITICAL        *)
(* conflict only becomes suppressed by the commit of an admin who asked    *)
(* for it, whatever PATCHes of reviewers overlap.                          *)
CriticalSuppressedByAdmin ==
  [][\A c \in Conflict :
       /\ Reported(c)
       /\ conflict[c].severity = "CRITICAL"
       /\ conflict[c].status # SUPPRESSED
       /\ conflict'[c].status = SUPPRESSED
       => \E u \in User : /\ RoleOf[u] = "admin"
                          /\ patch[u].conflict = c
                          /\ patch[u].status = SUPPRESSED
                          /\ patch'[u] = NoPatch]_lifecycleVars

(* The health score falls only when a conflict is reported or reopened:    *)
(* no order of acknowledging, resolving and suppressing lowers it.         *)
ScoreFallsOnlyByOpening ==
  [][HealthScore' < HealthScore =>
       \E c \in Conflict : /\ ~Reported(c) \/ conflict[c].status # OPEN
                           /\ conflict'[c] # NoConflict
                           /\ conflict'[c].status = OPEN]_lifecycleVars
=============================================================================
