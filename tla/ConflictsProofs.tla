--------------------------- MODULE ConflictsProofs --------------------------
(***************************************************************************)
(* Proofs about the parts that handle conflicts, for any conflicts, users  *)
(* and roles, any names, distances, policies and environments, any lists   *)
(* a server may answer: the rows of conflicts and the health score, the    *)
(* stages and the gates, the sync, and the types of all of them together.  *)
(***************************************************************************)
EXTENDS MCConflicts, OrchestrationProofs

-----------------------------------------------------------------------------
(* The rows of conflicts.                                                  *)

(* What a PATCH in progress may rely on although it holds a row that may   *)
(* be out of date: its conflict is there with the severity it loaded, what *)
(* was settled by somebody still is, and the check of the role holds.      *)
PatchSound(u) ==
  LET c == patch[u].conflict
      seen == patch[u].seen
  IN  /\ c \in Conflict
      /\ seen \in ConflictRow
      /\ patch[u].status \in ALL
      /\ Reported(c)
      /\ seen.resolved_by # None => conflict[c].resolved_by # None
      /\ patch[u].status = SUPPRESSED => MaySuppress(u, conflict[c])

PatchesSound == \A u \in User : patch[u] # NoPatch => PatchSound(u)

LifecycleInv == LifecycleTypeOK /\ SettledHasResolver /\ PatchesSound

(* Only an admin has the role of an admin.                                 *)
LEMMA AdminIsAdmin ==
  ASSUME NEW role, HasMinimumRole(role, "admin")
  PROVE  role = "admin"
BY DEF HasMinimumRole, ROLE_ORDER

(* A reported conflict is a row with its fields.                           *)
LEMMA RowFields ==
  ASSUME LifecycleTypeOK, NEW c \in Conflict, Reported(c)
  PROVE  /\ conflict[c] \in ConflictRow
         /\ conflict[c].severity \in Severity
         /\ conflict[c].status \in ALL
         /\ conflict[c].resolved_at \in BOOLEAN
         /\ conflict[c].resolved_by \in User \cup {None}
<1>1. conflict[c] \in ConflictRow
  BY DEF LifecycleTypeOK, Reported
<1>. QED BY <1>1 DEF ConflictRow

(* A row built from its fields.                                            *)
LEMMA RowAtFields ==
  ASSUME NEW s \in Severity, NEW t \in ALL, NEW r \in BOOLEAN, NEW b \in User \cup {None}
  PROVE  /\ RowAt(s, t, r, b) \in ConflictRow
         /\ RowAt(s, t, r, b) # NoConflict
         /\ RowAt(s, t, r, b).severity = s
         /\ RowAt(s, t, r, b).status = t
         /\ RowAt(s, t, r, b).resolved_at = r
         /\ RowAt(s, t, r, b).resolved_by = b
BY LifecycleAssumption DEF RowAt, ConflictRow

(* What the UPDATE of a PATCH does to a row: it keeps the severity, never  *)
(* forgets who settled it, and settles it only with a resolver.            *)
LEMMA PatchedFields ==
  ASSUME LifecycleInv, NEW u \in User, patch[u] # NoPatch
  PROVE  LET c == patch[u].conflict
             new == Patched(conflict[c], patch[u].seen, patch[u].status, u)
         IN  /\ new \in ConflictRow
             /\ new # NoConflict
             /\ new.severity = conflict[c].severity
             /\ new.status \in {conflict[c].status, patch[u].status}
             /\ conflict[c].resolved_by # None => new.resolved_by # None
             /\ Settles(new.status) => new.resolved_at /\ new.resolved_by # None
<1>. DEFINE c == patch[u].conflict
            seen == patch[u].seen
            status == patch[u].status
            status2 == IF status = seen.status THEN conflict[c].status ELSE status
            at2 == conflict[c].resolved_at \/ Settles(status)
            by2 == IF Settles(status) /\ seen.resolved_by # u THEN u
                   ELSE conflict[c].resolved_by
            new == Patched(conflict[c], seen, status, u)
<1>1. /\ c \in Conflict /\ status \in ALL /\ Reported(c)
      /\ seen.resolved_by # None => conflict[c].resolved_by # None
  BY DEF LifecycleInv, PatchesSound, PatchSound
<1>2. /\ conflict[c].severity \in Severity
      /\ conflict[c].status \in ALL
      /\ conflict[c].resolved_at \in BOOLEAN
      /\ conflict[c].resolved_by \in User \cup {None}
  BY <1>1, RowFields DEF LifecycleInv
<1>3. Settles(conflict[c].status) =>
        conflict[c].resolved_at /\ conflict[c].resolved_by # None
  BY <1>1 DEF LifecycleInv, SettledHasResolver, Settles
<1>4. status2 \in ALL /\ status2 \in {conflict[c].status, status}
  BY <1>1, <1>2
<1>5. u # None
  BY LifecycleAssumption
<1>6. by2 \in User \cup {None} /\ (conflict[c].resolved_by # None => by2 # None)
  BY <1>2, <1>5
<1>7. Settles(status) => by2 # None
  BY <1>1, <1>5
<1>8. Settles(status2) => at2 /\ by2 # None
  BY <1>3, <1>4, <1>6, <1>7
<1>9. at2 \in BOOLEAN
  BY <1>2 DEF Settles
<1>10. new = RowAt(conflict[c].severity, status2, at2, by2)
  BY DEF Patched
<1>. HIDE DEF status2, at2, by2, new
<1>11. /\ new \in ConflictRow /\ new # NoConflict
       /\ new.severity = conflict[c].severity /\ new.status = status2
       /\ new.resolved_at = at2 /\ new.resolved_by = by2
  BY <1>2, <1>4, <1>6, <1>9, <1>10, RowAtFields
<1>12. /\ new \in ConflictRow
       /\ new # NoConflict
       /\ new.severity = conflict[c].severity
       /\ new.status \in {conflict[c].status, status}
       /\ conflict[c].resolved_by # None => new.resolved_by # None
       /\ Settles(new.status) => new.resolved_at /\ new.resolved_by # None
  BY <1>4, <1>6, <1>8, <1>11
<1>. QED BY <1>12 DEF new

-----------------------------------------------------------------------------
(* No rows and no requests.                                                *)
LEMMA LifecycleInitInv == LifecycleInit => LifecycleInv
<1>. SUFFICES ASSUME LifecycleInit PROVE LifecycleInv
  OBVIOUS
<1>1. LifecycleTypeOK
  BY DEF LifecycleInit, LifecycleTypeOK, Patch, NoPatch, PatchOf
<1>2. SettledHasResolver /\ PatchesSound
  BY DEF LifecycleInit, SettledHasResolver, Reported, PatchesSound
<1>. QED BY <1>1, <1>2 DEF LifecycleInv

(* A row that is reported was not there: no PATCH has loaded it.           *)
LEMMA ReportInv ==
  ASSUME LifecycleInv, NEW c \in Conflict, NEW severity \in Detected, Report(c, severity)
  PROVE  LifecycleInv'
<1>. DEFINE new == RowAt(severity, OPEN, FALSE, None)
<1>1. /\ new \in ConflictRow /\ new # NoConflict
      /\ new.status = OPEN
  <2>1. severity \in Severity /\ OPEN \in ALL
    BY LifecycleAssumption DEF ALL
  <2>2. new \in ConflictRow
    BY <2>1 DEF RowAt, ConflictRow
  <2>3. new.status = OPEN
    BY DEF RowAt
  <2>. QED BY <2>2, <2>3, LifecycleAssumption
<1>2. conflict' = [conflict EXCEPT ![c] = new] /\ patch' = patch /\ ~Reported(c)
  BY DEF Report
<1>. HIDE DEF new
<1>3. conflict \in [Conflict -> ConflictRow \cup {NoConflict}]
  BY DEF LifecycleInv, LifecycleTypeOK
<1>4. LifecycleTypeOK'
  BY <1>1, <1>2, <1>3 DEF LifecycleInv, LifecycleTypeOK
<1>5. conflict'[c] = new /\ \A d \in Conflict : d # c => conflict'[d] = conflict[d]
  BY <1>2, <1>3
<1>6. SettledHasResolver'
  BY <1>1, <1>5 DEF LifecycleInv, SettledHasResolver, Reported, OPEN, RESOLVED, SUPPRESSED
<1>7. PatchesSound'
  <2>. SUFFICES ASSUME NEW u \in User, patch[u] # NoPatch PROVE PatchSound(u)'
    BY <1>2 DEF PatchesSound
  <2>1. PatchSound(u)
    BY DEF LifecycleInv, PatchesSound
  <2>2. patch[u].conflict \in Conflict /\ patch[u].conflict # c
    BY <1>2, <2>1 DEF PatchSound
  <2>3. conflict'[patch[u].conflict] = conflict[patch[u].conflict]
    BY <1>5, <2>2
  <2>. QED BY <1>2, <2>1, <2>3 DEF PatchSound, Reported, MaySuppress
<1>. QED BY <1>4, <1>6, <1>7 DEF LifecycleInv

(* A PATCH loads a row after the checks of the handler.                    *)
LEMMA PatchLoadInv ==
  ASSUME LifecycleInv, NEW u \in User, NEW c \in Conflict, NEW status,
         PatchLoad(u, c, status)
  PROVE  LifecycleInv'
<1>. DEFINE new == PatchOf(c, conflict[c], status)
<1>1. /\ conflict[c] \in ConflictRow /\ status \in ALL /\ Reported(c)
      /\ status = SUPPRESSED => MaySuppress(u, conflict[c])
      /\ conflict' = conflict
  BY RowFields DEF PatchLoad, LifecycleInv
<1>2. /\ new \in Patch
      /\ new.conflict = c /\ new.seen = conflict[c] /\ new.status = status
  BY <1>1 DEF Patch, PatchOf
<1>3. patch' = [patch EXCEPT ![u] = new]
  BY DEF PatchLoad
<1>. HIDE DEF new
<1>4. patch \in [User -> Patch]
  BY DEF LifecycleInv, LifecycleTypeOK
<1>5. patch'[u] = new /\ \A v \in User : v # u => patch'[v] = patch[v]
  BY <1>3, <1>4
<1>6. LifecycleTypeOK'
  BY <1>1, <1>2, <1>3, <1>4 DEF LifecycleInv, LifecycleTypeOK
<1>7. SettledHasResolver'
  BY <1>1 DEF LifecycleInv, SettledHasResolver, Reported
<1>8. PatchSound(u)'
  BY <1>1, <1>2, <1>5 DEF PatchSound, Reported, MaySuppress
<1>9. ASSUME NEW v \in User, v # u, patch'[v] # NoPatch PROVE PatchSound(v)'
  <2>1. PatchSound(v)
    BY <1>5, <1>9 DEF LifecycleInv, PatchesSound
  <2>. QED BY <1>1, <1>5, <1>9, <2>1 DEF PatchSound, Reported, MaySuppress
<1>10. PatchesSound'
  BY <1>8, <1>9 DEF PatchesSound
<1>. QED BY <1>6, <1>7, <1>10 DEF LifecycleInv

(* The commit of a PATCH, over whatever was committed since it loaded.     *)
LEMMA PatchCommitInv ==
  ASSUME LifecycleInv, NEW u \in User, PatchCommit(u)
  PROVE  LifecycleInv'
<1>. DEFINE c == patch[u].conflict
            new == Patched(conflict[c], patch[u].seen, patch[u].status, u)
<1>1. /\ patch[u] # NoPatch
      /\ conflict' = [conflict EXCEPT ![c] = new]
      /\ patch' = [patch EXCEPT ![u] = NoPatch]
  BY DEF PatchCommit
<1>2. /\ new \in ConflictRow /\ new # NoConflict
      /\ new.severity = conflict[c].severity
      /\ conflict[c].resolved_by # None => new.resolved_by # None
      /\ Settles(new.status) => new.resolved_at /\ new.resolved_by # None
  BY <1>1, PatchedFields
<1>. HIDE DEF new
<1>3. c \in Conflict /\ Reported(c)
  BY <1>1 DEF LifecycleInv, PatchesSound, PatchSound
<1>4. /\ conflict \in [Conflict -> ConflictRow \cup {NoConflict}]
      /\ patch \in [User -> Patch] /\ NoPatch \in Patch
  BY DEF LifecycleInv, LifecycleTypeOK, NoPatch, PatchOf, Patch
<1>5. conflict'[c] = new /\ \A d \in Conflict : d # c => conflict'[d] = conflict[d]
  BY <1>1, <1>3, <1>4
<1>6. patch'[u] = NoPatch /\ \A v \in User : v # u => patch'[v] = patch[v]
  BY <1>1, <1>4
<1>7. LifecycleTypeOK'
  BY <1>1, <1>2, <1>4 DEF LifecycleTypeOK
<1>8. SettledHasResolver'
  BY <1>2, <1>5 DEF LifecycleInv, SettledHasResolver, Reported, Settles
<1>9. ASSUME NEW v \in User, patch'[v] # NoPatch PROVE PatchSound(v)'
  <2>. DEFINE d == patch[v].conflict
  <2>1. v # u /\ patch'[v] = patch[v]
    BY <1>6, <1>9
  <2>2. PatchSound(v)
    BY <1>9, <2>1 DEF LifecycleInv, PatchesSound
  <2>3. /\ conflict'[d] # NoConflict
        /\ conflict'[d].severity = conflict[d].severity
        /\ conflict[d].resolved_by # None => conflict'[d].resolved_by # None
    BY <1>2, <1>5, <2>2 DEF PatchSound, Reported
  <2>. QED BY <2>1, <2>2, <2>3 DEF PatchSound, Reported, MaySuppress
<1>10. PatchesSound'
  BY <1>9 DEF PatchesSound
<1>. QED BY <1>7, <1>8, <1>10 DEF LifecycleInv

(* A rollback.                                                             *)
LEMMA PatchAbandonInv ==
  ASSUME LifecycleInv, NEW u \in User, PatchAbandon(u)
  PROVE  LifecycleInv'
<1>1. conflict' = conflict /\ patch' = [patch EXCEPT ![u] = NoPatch]
  BY DEF PatchAbandon
<1>2. patch \in [User -> Patch] /\ NoPatch \in Patch
  BY DEF LifecycleInv, LifecycleTypeOK, NoPatch, PatchOf, Patch
<1>3. LifecycleTypeOK' /\ SettledHasResolver'
  BY <1>1, <1>2 DEF LifecycleInv, LifecycleTypeOK, SettledHasResolver, Reported
<1>4. ASSUME NEW v \in User, patch'[v] # NoPatch PROVE PatchSound(v)'
  <2>1. patch'[v] = patch[v]
    BY <1>1, <1>2, <1>4
  <2>2. PatchSound(v)
    BY <1>4, <2>1 DEF LifecycleInv, PatchesSound
  <2>. QED BY <1>1, <2>1, <2>2 DEF PatchSound, Reported, MaySuppress
<1>. QED BY <1>3, <1>4 DEF LifecycleInv, PatchesSound

(* Every step keeps the invariant.                                         *)
LEMMA LifecycleNextInv == LifecycleInv /\ [LifecycleNext]_lifecycleVars => LifecycleInv'
<1>. SUFFICES ASSUME LifecycleInv, [LifecycleNext]_lifecycleVars PROVE LifecycleInv'
  OBVIOUS
<1>1. ASSUME NEW c \in Conflict, NEW severity \in Detected, Report(c, severity)
      PROVE  LifecycleInv'
  BY <1>1, ReportInv
<1>2. ASSUME NEW u \in User, NEW c \in Conflict, NEW status \in Sent,
             PatchLoad(u, c, status)
      PROVE  LifecycleInv'
  BY <1>2, PatchLoadInv
<1>3. ASSUME NEW u \in User, PatchCommit(u) PROVE LifecycleInv'
  BY <1>3, PatchCommitInv
<1>4. ASSUME NEW u \in User, PatchAbandon(u) PROVE LifecycleInv'
  BY <1>4, PatchAbandonInv
<1>5. CASE UNCHANGED lifecycleVars
  BY <1>5 DEF lifecycleVars, LifecycleInv, LifecycleTypeOK, SettledHasResolver,
              PatchesSound, PatchSound, Reported, MaySuppress
<1>. QED BY <1>1, <1>2, <1>3, <1>4, <1>5 DEF LifecycleNext

-----------------------------------------------------------------------------
(* The table and the requests keep their types.                            *)
THEOREM LifecycleTypeCorrect == LifecycleSpec => []LifecycleTypeOK
<1>1. LifecycleInv => LifecycleTypeOK
  BY DEF LifecycleInv
<1>. QED BY <1>1, LifecycleInitInv, LifecycleNextInv, PTL DEF LifecycleSpec

(* A conflict that is settled names who settled it, however PATCHes        *)
(* overlap.                                                                *)
THEOREM SettledNamesResolver == LifecycleSpec => []SettledHasResolver
<1>1. LifecycleInv => SettledHasResolver
  BY DEF LifecycleInv
<1>. QED BY <1>1, LifecycleInitInv, LifecycleNextInv, PTL DEF LifecycleSpec

(* No CRITICAL conflict becomes suppressed but by an admin.                *)
THEOREM OnlyAdminsSuppressCritical == LifecycleSpec => CriticalSuppressedByAdmin
<1>. DEFINE Suppressed(c) ==
              /\ Reported(c)
              /\ conflict[c].severity = "CRITICAL"
              /\ conflict[c].status # SUPPRESSED
              /\ conflict'[c].status = SUPPRESSED
            ByAdmin(c) ==
              \E u \in User : /\ RoleOf[u] = "admin"
                              /\ patch[u].conflict = c
                              /\ patch[u].status = SUPPRESSED
                              /\ patch'[u] = NoPatch
            Checked == \A c \in Conflict : Suppressed(c) => ByAdmin(c)
<1>1. LifecycleInv /\ [LifecycleNext]_lifecycleVars => [Checked]_lifecycleVars
  <2>. SUFFICES ASSUME LifecycleInv, LifecycleNext, NEW c \in Conflict, Suppressed(c)
                PROVE  ByAdmin(c)
    OBVIOUS
  <2>1. conflict \in [Conflict -> ConflictRow \cup {NoConflict}]
        /\ patch \in [User -> Patch]
    BY DEF LifecycleInv, LifecycleTypeOK
  <2>2. PICK u \in User : PatchCommit(u)
    <3>1. conflict'[c] # conflict[c]
      OBVIOUS
    <3>2. ASSUME NEW d \in Conflict, NEW severity \in Detected, Report(d, severity)
          PROVE  FALSE
      BY <2>1, <3>1, <3>2 DEF Report
    <3>. QED BY <3>1, <3>2 DEF LifecycleNext, PatchLoad, PatchAbandon
  <2>. DEFINE d == patch[u].conflict
              new == Patched(conflict[d], patch[u].seen, patch[u].status, u)
  <2>3. /\ patch[u] # NoPatch /\ patch'[u] = NoPatch
        /\ conflict' = [conflict EXCEPT ![d] = new]
    BY <2>1, <2>2 DEF PatchCommit
  <2>4. PatchSound(u)
    BY <2>3 DEF LifecycleInv, PatchesSound
  <2>5. new.status \in {conflict[d].status, patch[u].status}
    BY <2>3, PatchedFields
  <2>. HIDE DEF new
  <2>6. c = d
    BY <2>1, <2>3
  <2>7. patch[u].status = SUPPRESSED
    BY <2>1, <2>3, <2>5, <2>6
  <2>8. HasMinimumRole(RoleOf[u], "admin")
    BY <2>4, <2>6, <2>7 DEF PatchSound, MaySuppress
  <2>9. RoleOf[u] = "admin"
    BY <2>8, AdminIsAdmin
  <2>. QED BY <2>3, <2>6, <2>7, <2>9
<1>. QED BY <1>1, LifecycleInitInv, LifecycleNextInv, PTL DEF LifecycleSpec, CriticalSuppressedByAdmin

-----------------------------------------------------------------------------
Openings == {c \in Conflict : Open(conflict[c])}

Deduction == [c \in Openings |-> DEDUCTION[conflict[c].severity]]

Deductions == SumFunction(Deduction)

\* The score is what the open conflicts leave of 100.
DeductionsAdd ==
  /\ IsFiniteSet(Openings)
  /\ InNat(Deduction, Openings)
  /\ Deductions = SumFunctionOnSet(Deduction, Openings)
  /\ Deductions \in Nat
  /\ HealthScore = IF Deductions > 100 THEN 0 ELSE 100 - Deductions

(* The deductions of the conflicts that are open are natural numbers.      *)
LEMMA ScoreIsOfDeductions == LifecycleTypeOK => DeductionsAdd
<1>. SUFFICES ASSUME LifecycleTypeOK PROVE DeductionsAdd
  OBVIOUS
<1>1. IsFiniteSet(Openings)
  BY LifecycleAssumption, FS_Subset DEF Openings
<1>2. \A c \in Openings : conflict[c].severity \in Severity
  BY RowFields DEF Openings, Open, Reported
<1>3. \A s \in Severity : DEDUCTION[s] \in Nat
  BY DEF Severity, SEVERITY_ORDER, DEDUCTION
<1>4. InNat(Deduction, Openings)
  BY <1>2, <1>3 DEF InNat, Deduction
<1>5. DOMAIN Deduction = Openings
  BY DEF Deduction
<1>6. Deductions = SumFunctionOnSet(Deduction, Openings)
  BY <1>5 DEF Deductions, SumFunction
<1>7. Deductions \in Nat
  BY <1>1, <1>4, <1>6, SumFacts
<1>8. HealthScore = IF Deductions > 100 THEN 0 ELSE 100 - Deductions
  BY DEF HealthScore, Deductions, Deduction, Openings
<1>. QED BY <1>1, <1>4, <1>6, <1>7, <1>8 DEF DeductionsAdd

(* A step never changes the severity of a conflict that is reported.       *)
LEMMA SeverityStays ==
  ASSUME LifecycleInv, [LifecycleNext]_lifecycleVars, NEW c \in Conflict, Reported(c)
  PROVE  conflict'[c].severity = conflict[c].severity
<1>0. conflict \in [Conflict -> ConflictRow \cup {NoConflict}]
  BY DEF LifecycleInv, LifecycleTypeOK
<1>1. ASSUME NEW d \in Conflict, NEW severity \in Detected, Report(d, severity)
      PROVE  conflict'[c] = conflict[c]
  BY <1>0, <1>1 DEF Report
<1>2. ASSUME NEW u \in User, PatchCommit(u)
      PROVE  conflict'[c].severity = conflict[c].severity
  <2>. DEFINE d == patch[u].conflict
              new == Patched(conflict[d], patch[u].seen, patch[u].status, u)
  <2>1. patch[u] # NoPatch /\ conflict' = [conflict EXCEPT ![d] = new]
    BY <1>2 DEF PatchCommit
  <2>2. new.severity = conflict[d].severity
    BY <2>1, PatchedFields
  <2>. HIDE DEF new
  <2>. QED BY <1>0, <2>1, <2>2
<1>. QED BY <1>1, <1>2 DEF LifecycleNext, PatchLoad, PatchAbandon, lifecycleVars

(* The health score falls only when a conflict is reported or reopened:    *)
(* without one, the open conflicts after a step were open before it, with  *)
(* the same deductions.                                                    *)
THEOREM OnlyOpeningLowersScore == LifecycleSpec => ScoreFallsOnlyByOpening
<1>. DEFINE Opens(c) == /\ ~Reported(c) \/ conflict[c].status # OPEN
                        /\ conflict'[c] # NoConflict
                        /\ conflict'[c].status = OPEN
            Explained == HealthScore' < HealthScore => \E c \in Conflict : Opens(c)
<1>0. LifecycleInv' => DeductionsAdd'
  <2>1. LifecycleInv => DeductionsAdd
    BY ScoreIsOfDeductions DEF LifecycleInv
  <2>. QED BY <2>1, PTL
<1>1. ASSUME LifecycleInv, LifecycleInv', [LifecycleNext]_lifecycleVars,
             \A c \in Conflict : ~Opens(c)
      PROVE  ~(HealthScore' < HealthScore)
  <2>1. PICK open2 : open2 = Openings'
    OBVIOUS
  <2>2. PICK v : v = Deduction'
    OBVIOUS
  <2>3. open2 = {c \in Conflict : conflict'[c] # NoConflict /\ conflict'[c].status = OPEN}
    BY <2>1 DEF Openings, Open
  <2>4. open2 \in SUBSET Openings
    BY <1>1, <2>3 DEF Openings, Open, Reported
  <2>5. v = [c \in open2 |-> DEDUCTION[conflict'[c].severity]]
    BY <2>1, <2>2 DEF Deduction
  <2>6. \A c \in open2 : v[c] = Deduction[c]
    <3>. SUFFICES ASSUME NEW c \in open2 PROVE v[c] = Deduction[c]
      OBVIOUS
    <3>1. c \in Conflict /\ Reported(c)
      BY <2>4 DEF Openings, Open, Reported
    <3>2. conflict'[c].severity = conflict[c].severity
      BY <1>1, <3>1, SeverityStays
    <3>. QED BY <2>4, <2>5, <3>2 DEF Deduction
  <2>8. DeductionsAdd
    BY <1>1, ScoreIsOfDeductions DEF LifecycleInv
  <2>9. DeductionsAdd'
    BY <1>0, <1>1
  <2>10. InNat(v, open2) /\ Deductions' = SumFunctionOnSet(v, open2)
    BY <2>1, <2>2, <2>9 DEF DeductionsAdd
  <2>11. \A c \in open2 : v[c] <= Deduction[c]
    BY <2>4, <2>6, <2>8 DEF DeductionsAdd, InNat
  <2>12. SumFunctionOnSet(v, open2) <= SumFunctionOnSet(Deduction, Openings)
    BY <2>4, <2>8, <2>10, <2>11, SumGrows DEF DeductionsAdd
  <2>13. Deductions' <= Deductions /\ Deductions' \in Nat
    BY <2>8, <2>9, <2>10, <2>12 DEF DeductionsAdd
  <2>14. HealthScore' = IF Deductions' > 100 THEN 0 ELSE 100 - Deductions'
    BY <2>9 DEF DeductionsAdd
  <2>. QED BY <2>8, <2>13, <2>14 DEF DeductionsAdd
<1>2. LifecycleInv /\ LifecycleInv' /\ [LifecycleNext]_lifecycleVars
        => [Explained]_lifecycleVars
  BY <1>1
<1>. QED BY <1>2, LifecycleInitInv, LifecycleNextInv, PTL
         DEF LifecycleSpec, ScoreFallsOnlyByOpening

-----------------------------------------------------------------------------
(* The stages and the gates.                                               *)

\* What is found has a severity.
Ranked(found) == \A c \in found : c.severity \in Severity

(* An answer is about the tools its check has seen: those of stages 1 and  *)
(* 2 with the verdict of a gate, or those of all stages without one.       *)
AnswerOK ==
  answer # NoAnswer =>
    /\ answer.env \in Environment \cup {NoEnvironment}
    /\ answer.candidate \in ToolDef
    /\ answer.seen \subseteq ToolDef
    /\ \/ /\ answer.verdict = <<Verdict(answer.env, answer.found)>>
          /\ answer.found = RunSync(answer.candidate, answer.seen)
          /\ answer.hits = {}
       \/ /\ answer.verdict = <<>>
          /\ answer.found = RunAsync(answer.candidate, answer.seen, answer.hits)
          /\ answer.hits \in Hits

GateInv == active \subseteq Environment \X ToolDef /\ AnswerOK

-----------------------------------------------------------------------------
(* The five severities and their ranks.                                    *)
LEMMA Ranks ==
  /\ Severity = {"CRITICAL", "HIGH", "MEDIUM", "LOW", "INFO"}
  /\ SEVERITY_ORDER["CRITICAL"] = 0
  /\ \A s \in Severity : SEVERITY_ORDER[s] \in 0 .. 4
  /\ \A s \in Severity : SEVERITY_ORDER[s] <= 0 => s = "CRITICAL"
BY DEF Severity, SEVERITY_ORDER

(* CRITICAL is the highest severity of whatever holds a CRITICAL finding.  *)
LEMMA CriticalIsHighest ==
  ASSUME NEW found, Ranked(found), HasCritical(found)
  PROVE  HighestSeverity(found) = "CRITICAL"
<1>. DEFINE Worst(c) ==
       \A d \in found : SEVERITY_ORDER[c.severity] <= SEVERITY_ORDER[d.severity]
<1>1. PICK c \in found : c.severity = "CRITICAL"
  BY DEF HasCritical
<1>2. Worst(c)
  BY <1>1, Ranks DEF Ranked
<1>3. PICK w : w = CHOOSE d \in found : Worst(d)
  OBVIOUS
<1>4. w \in found /\ Worst(w)
  BY <1>1, <1>2, <1>3
<1>5. w.severity = "CRITICAL"
  BY <1>1, <1>4, Ranks DEF Ranked
<1>. QED BY <1>1, <1>3, <1>5 DEF HighestSeverity

(* Whatever the stages find has a severity.                                *)
LEMMA PairRanked ==
  ASSUME NEW a, NEW b
  PROVE  Ranked(Pair(a, b))
<1>. SUFFICES ASSUME NEW c \in Pair(a, b) PROVE c.severity \in {"CRITICAL", "MEDIUM"}
  BY Ranks DEF Ranked
<1>1. CASE c \in Lexical(a, b)
  <2>. DEFINE d == EditDistance(a, b)
              jaccard == Jaccard(Tokens[a.name], Tokens[b.name])
  <2>1. \/ c = ConflictOf("EXACT_NAME", "CRITICAL", b.name, 100 * SCALE, "")
        \/ c = ConflictOf("SIMILAR_NAME", "MEDIUM", b.name, (70 - d * 10) * SCALE, "")
        \/ c = ConflictOf("SIMILAR_NAME", "MEDIUM", b.name, jaccard * 60, "")
    BY <1>1 DEF Lexical
  <2>. HIDE DEF d, jaccard
  <2>2. PICK t, severity, score :
          /\ c = ConflictOf(t, severity, b.name, score, "")
          /\ severity \in {"CRITICAL", "MEDIUM"}
    BY <2>1, Zenon
  <2>. QED BY <2>2 DEF ConflictOf
<1>2. CASE c \in TypeCollisions(a, b)
  <2>1. PICK p : c = ConflictOf("TYPE_COLLISION", "MEDIUM", b.name, 65 * SCALE, p)
    BY <1>2 DEF TypeCollisions
  <2>. QED BY <2>1 DEF ConflictOf
<1>3. CASE c \in RequiredOverlap(a, b)
  <2>1. c = ConflictOf("REQUIRED_FIELD_OVERLAP", "MEDIUM", b.name,
                       Jaccard(a.required, b.required) * 70, "")
    BY <1>3 DEF RequiredOverlap
  <2>. QED BY <2>1 DEF ConflictOf
<1>. QED BY <1>1, <1>2, <1>3 DEF Pair

(* So has whatever a run finds.                                            *)
LEMMA RunSyncRanked ==
  ASSUME NEW a, NEW existing
  PROVE  Ranked(RunSync(a, existing))
BY PairRanked DEF RunSync, Ranked

(* And whatever the index adds.                                            *)
LEMMA SemanticRanked ==
  ASSUME NEW hits
  PROVE  Ranked(Semantic(hits))
<1>. SUFFICES ASSUME NEW c \in Semantic(hits) PROVE c.severity \in Severity
  BY DEF Ranked
<1>1. PICK h \in hits :
        c = ConflictOf("SEMANTIC_OVERLAP", SemanticSeverity(h.score), h.name,
                       h.score * SCALE, "")
  BY DEF Semantic
<1>2. c.severity = SemanticSeverity(h.score)
  BY <1>1 DEF ConflictOf
<1>. QED BY <1>2, Ranks DEF SemanticSeverity

-----------------------------------------------------------------------------
(* No answer at first.                                                     *)
LEMMA GateInitInv == GateInit => GateInv
BY DEF GateInit, GateInv, AnswerOK

(* The tools of an environment are tool definitions.                       *)
LEMMA ExistingAreTools ==
  ASSUME GateInv, NEW env
  PROVE  Existing(env) \subseteq ToolDef
BY DEF GateInv, Existing

(* An answer is made of its parts.                                         *)
LEMMA AnswerFields ==
  ASSUME NEW env, NEW candidate, NEW hits, NEW found, NEW verdict
  PROVE  LET a == AnswerOf(env, candidate, hits, found, verdict)
         IN  /\ a.env = env /\ a.candidate = candidate /\ a.seen = Existing(env)
             /\ a.hits = hits /\ a.found = found /\ a.verdict = verdict
BY DEF AnswerOf

(* A check answers for the tools that are active now.                      *)
LEMMA CheckToolInv ==
  ASSUME GateInv, NEW env \in Environment \cup {NoEnvironment}, NEW candidate \in ToolDef,
         CheckTool(env, candidate)
  PROVE  GateInv'
<1>1. PICK seen, found, verdict :
        /\ seen = Existing(env) /\ found = RunSync(candidate, seen)
        /\ verdict = <<Verdict(env, found)>>
  OBVIOUS
<1>2. answer' = AnswerOf(env, candidate, {}, found, verdict) /\ active' = active
  BY <1>1 DEF CheckTool
<1>3. /\ answer'.env = env /\ answer'.candidate = candidate /\ answer'.seen = seen
      /\ answer'.hits = {} /\ answer'.found = found /\ answer'.verdict = verdict
  BY <1>1, <1>2, AnswerFields
<1>4. seen \subseteq ToolDef
  BY <1>1, ExistingAreTools
<1>. QED BY <1>1, <1>2, <1>3, <1>4 DEF GateInv, AnswerOK

(* So does an analysis.                                                    *)
LEMMA AnalyseInv ==
  ASSUME GateInv, NEW env \in Environment, NEW candidate \in ToolDef, NEW hits \in Hits,
         Analyse(env, candidate, hits)
  PROVE  GateInv'
<1>1. PICK seen, found :
        seen = Existing(env) /\ found = RunAsync(candidate, seen, hits)
  OBVIOUS
<1>2. answer' = AnswerOf(env, candidate, hits, found, <<>>) /\ active' = active
  BY <1>1 DEF Analyse
<1>3. /\ answer'.env = env /\ answer'.candidate = candidate /\ answer'.seen = seen
      /\ answer'.hits = hits /\ answer'.found = found /\ answer'.verdict = <<>>
  BY <1>1, <1>2, AnswerFields
<1>4. seen \subseteq ToolDef
  BY <1>1, ExistingAreTools
<1>. QED BY <1>1, <1>2, <1>3, <1>4 DEF GateInv, AnswerOK

(* Every step keeps the invariant.                                         *)
LEMMA GateNextInv == GateInv /\ [GateNext]_gateVars => GateInv'
<1>. SUFFICES ASSUME GateInv, [GateNext]_gateVars PROVE GateInv'
  OBVIOUS
<1>1. ASSUME NEW env \in Environment, NEW tool \in ToolDef,
             Enlist(env, tool) \/ Withdraw(env, tool)
      PROVE  GateInv'
  <2>1. answer' = answer /\ active' \subseteq active \cup {<<env, tool>>}
    BY <1>1 DEF Enlist, Withdraw
  <2>2. active' \subseteq Environment \X ToolDef
    BY <1>1, <2>1 DEF GateInv
  <2>3. AnswerOK'
    BY <2>1 DEF GateInv, AnswerOK
  <2>. QED BY <2>2, <2>3 DEF GateInv
<1>2. ASSUME NEW env \in Environment \cup {NoEnvironment}, NEW candidate \in ToolDef,
             CheckTool(env, candidate)
      PROVE  GateInv'
  BY <1>2, CheckToolInv
<1>3. ASSUME NEW key \in ApiKey, NEW env \in Environment, NEW candidate \in ToolDef,
             CiCheck(key, EnvNameOf[env], candidate)
      PROVE  GateInv'
  BY <1>2, <1>3 DEF CiCheck
<1>4. ASSUME NEW env \in Environment, NEW candidate \in ToolDef, NEW hits \in Hits,
             Analyse(env, candidate, hits)
      PROVE  GateInv'
  BY <1>4, AnalyseInv
<1>5. CASE UNCHANGED gateVars
  BY <1>5 DEF gateVars, GateInv, AnswerOK
<1>. QED BY <1>1, <1>2, <1>3, <1>4, <1>5 DEF GateNext

-----------------------------------------------------------------------------
(* A run that leaves stage 3 out reports the severity it would have        *)
(* reported with it, for any hits.                                         *)
THEOREM ShortCircuitLosesNothing == GateSpec => []ShortCircuitKeepsWorst
<1>1. GateInv => ShortCircuitKeepsWorst
  <2>. SUFFICES ASSUME GateInv, answer # NoAnswer
                PROVE  HighestSeverity(answer.found) =
                         HighestSeverity(RunSync(answer.candidate, answer.seen)
                                           \cup Semantic(answer.hits))
    BY DEF ShortCircuitKeepsWorst
  <2>. DEFINE sync == RunSync(answer.candidate, answer.seen)
              index == Semantic(answer.hits)
  <2>1. CASE answer.found = sync /\ answer.hits = {}
    <3>1. index = {}
      BY <2>1 DEF Semantic
    <3>. QED BY <2>1, <3>1
  <2>2. CASE answer.found = RunAsync(answer.candidate, answer.seen, answer.hits)
    <3>1. CASE HasCritical(sync)
      <4>1. Ranked(sync) /\ Ranked(sync \cup index)
        BY RunSyncRanked, SemanticRanked DEF Ranked
      <4>2. HasCritical(sync \cup index)
        BY <3>1 DEF HasCritical
      <4>3. answer.found = sync
        BY <2>2, <3>1 DEF RunAsync
      <4>. QED BY <3>1, <4>1, <4>2, <4>3, CriticalIsHighest
    <3>2. CASE ~HasCritical(sync)
      BY <2>2, <3>2 DEF RunAsync
    <3>. QED BY <3>1, <3>2
  <2>. QED BY <2>1, <2>2 DEF GateInv, AnswerOK
<1>. QED BY <1>1, GateInitInv, GateNextInv, PTL DEF GateSpec

(* Every policy blocks CRITICAL findings.                                  *)
LEMMA CriticalIsBlocked ==
  ASSUME NEW env, NEW c, c.severity = "CRITICAL"
  PROVE  Blocks(env, c)
<1>1. FailThreshold(env) \in 0 .. 4
  BY Ranks DEF FailThreshold, RankOr
<1>2. RankOr(c.severity, 99) = 0
  BY Ranks DEF RankOr
<1>. QED BY <1>1, <1>2 DEF Blocks

(* An equal name is CRITICAL.                                              *)
LEMMA SameNameFound ==
  ASSUME NEW candidate, NEW seen, NEW tool \in seen, SameName(candidate, tool)
  PROVE  \E c \in RunSync(candidate, seen) : c.severity = "CRITICAL"
<1>1. PICK c : c = ConflictOf("EXACT_NAME", "CRITICAL", tool.name, 100 * SCALE, "")
  OBVIOUS
<1>2. c \in Lexical(candidate, tool)
  BY <1>1 DEF Lexical
<1>3. c \in RunSync(candidate, seen)
  BY <1>2 DEF Pair, RunSync
<1>4. c.severity = "CRITICAL"
  BY <1>1 DEF ConflictOf
<1>. QED BY <1>3, <1>4

(* What a verdict is made of.                                              *)
LEMMA VerdictFields ==
  ASSUME NEW env, NEW found
  PROVE  LET blocking == {c \in found : Blocks(env, c)}
         IN  /\ Verdict(env, found).passed <=> blocking = {}
             /\ Verdict(env, found).conflicts = blocking
             /\ Verdict(env, found).blocking_severity = HighestSeverity(blocking)
BY DEF Verdict

(* Whatever the policy, a name that is taken is refused as CRITICAL; and   *)
(* what was refused stays refused while the tools it was checked against   *)
(* are active.                                                             *)
THEOREM GateRefusesWorst == GateSpec => []GateBlocksOnWorst
<1>1. GateInv => GateBlocksOnWorst
  <2>. SUFFICES ASSUME GateInv, answer # NoAnswer, answer.verdict # <<>>
                PROVE  LET verdict == answer.verdict[1]
                           again == Verdict(answer.env,
                                            RunSync(answer.candidate, Existing(answer.env)))
                       IN  /\ (\E tool \in answer.seen : SameName(answer.candidate, tool)) =>
                                ~verdict.passed /\ verdict.blocking_severity = "CRITICAL"
                           /\ answer.seen \subseteq Existing(answer.env) =>
                                /\ again.passed => verdict.passed
                                /\ verdict.conflicts \subseteq again.conflicts
    BY DEF GateBlocksOnWorst
  <2>1. PICK env, candidate, seen, found, now :
          /\ env = answer.env /\ candidate = answer.candidate /\ seen = answer.seen
          /\ found = answer.found /\ now = RunSync(answer.candidate, Existing(answer.env))
    OBVIOUS
  <2>2. /\ answer.verdict = <<Verdict(env, found)>>
        /\ found = RunSync(candidate, seen)
    BY <2>1 DEF GateInv, AnswerOK
  <2>3. answer.verdict[1] = Verdict(env, found)
    BY <2>2
  <2>. DEFINE blocking == {c \in found : Blocks(env, c)}
  <2>4. ASSUME NEW tool \in seen, SameName(candidate, tool)
        PROVE  ~Verdict(env, found).passed
               /\ Verdict(env, found).blocking_severity = "CRITICAL"
    <3>1. PICK c \in found : c.severity = "CRITICAL"
      BY <2>2, <2>4, SameNameFound
    <3>2. c \in blocking
      BY <3>1, CriticalIsBlocked
    <3>3. HasCritical(blocking)
      BY <3>1, <3>2 DEF HasCritical
    <3>4. Ranked(blocking)
      BY <2>2, RunSyncRanked DEF Ranked
    <3>5. HighestSeverity(blocking) = "CRITICAL"
      BY <3>3, <3>4, CriticalIsHighest
    <3>. QED BY <3>2, <3>5, VerdictFields
  <2>5. ASSUME seen \subseteq Existing(env)
        PROVE  /\ Verdict(env, now).passed => Verdict(env, found).passed
               /\ Verdict(env, found).conflicts \subseteq Verdict(env, now).conflicts
    <3>1. found \subseteq now
      BY <2>1, <2>2, <2>5 DEF RunSync
    <3>2. blocking \subseteq {c \in now : Blocks(env, c)}
      BY <3>1
    <3>3. /\ Verdict(env, found).passed <=> blocking = {}
          /\ Verdict(env, found).conflicts = blocking
      BY VerdictFields
    <3>4. /\ Verdict(env, now).passed <=> {c \in now : Blocks(env, c)} = {}
          /\ Verdict(env, now).conflicts = {c \in now : Blocks(env, c)}
      BY VerdictFields
    <3>. HIDE DEF blocking
    <3>. QED BY <3>2, <3>3, <3>4
  <2>6. (\E tool \in answer.seen : SameName(answer.candidate, tool)) =>
          ~answer.verdict[1].passed /\ answer.verdict[1].blocking_severity = "CRITICAL"
    <3>1. SUFFICES ASSUME NEW tool \in seen, SameName(candidate, tool)
                   PROVE  ~answer.verdict[1].passed
                          /\ answer.verdict[1].blocking_severity = "CRITICAL"
      BY <2>1
    <3>. QED BY ONLY <2>3, <2>4, <3>1
  <2>7. answer.seen \subseteq Existing(answer.env) =>
          LET again == Verdict(answer.env,
                               RunSync(answer.candidate, Existing(answer.env)))
          IN  /\ again.passed => answer.verdict[1].passed
              /\ answer.verdict[1].conflicts \subseteq again.conflicts
    <3>1. Verdict(answer.env, RunSync(answer.candidate, Existing(answer.env))) =
            Verdict(env, now)
      BY <2>1
    <3>2. answer.seen = seen /\ Existing(answer.env) = Existing(env)
      BY <2>1
    <3>. QED BY <2>3, <2>5, <3>1, <3>2
  <2>. QED BY <2>6, <2>7
<1>. QED BY <1>1, GateInitInv, GateNextInv, PTL DEF GateSpec

-----------------------------------------------------------------------------
(* The two measures of stage 1 do not depend on the direction.             *)
LEMMA MeasuresAreSymmetric ==
  ASSUME NEW a \in ToolDef, NEW b \in ToolDef
  PROVE  /\ SameName(a, b) <=> SameName(b, a)
         /\ EditDistance(a, b) = EditDistance(b, a)
         /\ \A S, T : Jaccard(S, T) = Jaccard(T, S)
<1>1. a.name \in ToolName /\ b.name \in ToolName
  BY GateAssumption
<1>2. EditDistance(a, b) = EditDistance(b, a)
  BY <1>1, DetectionAssumption DEF EditDistance
<1>3. ASSUME NEW S, NEW T PROVE Jaccard(S, T) = Jaccard(T, S)
  <2>1. S \cap T = T \cap S /\ S \cup T = T \cup S
    OBVIOUS
  <2>. QED BY <2>1 DEF Jaccard
<1>. QED BY <1>2, <1>3 DEF SameName

(* Under another name a finding is the same but for the name.              *)
LEMMA RenamedAlike ==
  ASSUME NEW type, NEW severity, NEW name, NEW other, NEW score, NEW param
  PROVE  Unnamed(ConflictOf(type, severity, name, score, param)) =
           Unnamed(ConflictOf(type, severity, other, score, param))
BY DEF ConflictOf, Unnamed

(* What is found in one direction is found in the other.                   *)
LEMMA FoundBothWays ==
  ASSUME NEW a \in ToolDef, NEW b \in ToolDef, NEW c \in Pair(a, b)
  PROVE  \E d \in Pair(b, a) : Unnamed(d) = Unnamed(c)
<1>1. CASE c \in Lexical(a, b)
  <2>1. PICK same, d, j :
          /\ same = SameName(a, b) /\ d = EditDistance(a, b)
          /\ j = Jaccard(Tokens[a.name], Tokens[b.name])
    OBVIOUS
  <2>2. /\ same = SameName(b, a) /\ d = EditDistance(b, a)
        /\ j = Jaccard(Tokens[b.name], Tokens[a.name])
    BY <2>1, MeasuresAreSymmetric DEF SameName
  <2>3. PICK type, severity, score :
          /\ c = ConflictOf(type, severity, b.name, score, "")
          /\ ConflictOf(type, severity, a.name, score, "") \in Lexical(b, a)
    <3>1. CASE same
      <4>1. /\ c = ConflictOf("EXACT_NAME", "CRITICAL", b.name, 100 * SCALE, "")
            /\ ConflictOf("EXACT_NAME", "CRITICAL", a.name, 100 * SCALE, "")
                 \in Lexical(b, a)
        BY <1>1, <2>1, <2>2, <3>1 DEF Lexical
      <4>. QED BY <4>1
    <3>2. CASE ~same /\ d <= 2
      <4>1. /\ c = ConflictOf("SIMILAR_NAME", "MEDIUM", b.name, (70 - d * 10) * SCALE, "")
            /\ ConflictOf("SIMILAR_NAME", "MEDIUM", a.name, (70 - d * 10) * SCALE, "")
                 \in Lexical(b, a)
        BY <1>1, <2>1, <2>2, <3>2 DEF Lexical
      <4>. QED BY <4>1
    <3>3. CASE ~same /\ ~(d <= 2)
      <4>1. /\ c = ConflictOf("SIMILAR_NAME", "MEDIUM", b.name, j * 60, "")
            /\ ConflictOf("SIMILAR_NAME", "MEDIUM", a.name, j * 60, "")
                 \in Lexical(b, a)
        BY <1>1, <2>1, <2>2, <3>3 DEF Lexical
      <4>. QED BY <4>1
    <3>. QED BY <3>1, <3>2, <3>3
  <2>4. PICK e : e = ConflictOf(type, severity, a.name, score, "")
    OBVIOUS
  <2>5. e \in Pair(b, a)
    BY <2>3, <2>4 DEF Pair
  <2>6. Unnamed(e) = Unnamed(c)
    BY <2>3, <2>4, RenamedAlike
  <2>. QED BY <2>5, <2>6
<1>2. CASE c \in TypeCollisions(a, b)
  <2>1. PICK p \in DOMAIN a.properties \cap DOMAIN b.properties :
          /\ a.properties[p] # b.properties[p]
          /\ c = ConflictOf("TYPE_COLLISION", "MEDIUM", b.name, 65 * SCALE, p)
    BY <1>2 DEF TypeCollisions
  <2>2. ConflictOf("TYPE_COLLISION", "MEDIUM", a.name, 65 * SCALE, p)
          \in TypeCollisions(b, a)
    BY <2>1 DEF TypeCollisions
  <2>3. PICK e : e = ConflictOf("TYPE_COLLISION", "MEDIUM", a.name, 65 * SCALE, p)
    OBVIOUS
  <2>4. e \in Pair(b, a)
    BY <2>2, <2>3 DEF Pair
  <2>5. Unnamed(e) = Unnamed(c)
    BY <2>1, <2>3, RenamedAlike
  <2>. QED BY <2>4, <2>5
<1>3. CASE c \in RequiredOverlap(a, b)
  <2>1. PICK j, score : j = Jaccard(a.required, b.required) /\ score = j * 70
    OBVIOUS
  <2>2. j = Jaccard(b.required, a.required)
    BY <2>1, MeasuresAreSymmetric
  <2>3. /\ a.required # {} /\ b.required # {} /\ 10 * j >= 7 * SCALE
        /\ c = ConflictOf("REQUIRED_FIELD_OVERLAP", "MEDIUM", b.name, score, "")
    BY <1>3, <2>1 DEF RequiredOverlap
  <2>4. ConflictOf("REQUIRED_FIELD_OVERLAP", "MEDIUM", a.name, score, "")
          \in RequiredOverlap(b, a)
    BY <2>1, <2>2, <2>3 DEF RequiredOverlap
  <2>5. PICK e : e = ConflictOf("REQUIRED_FIELD_OVERLAP", "MEDIUM", a.name, score, "")
    OBVIOUS
  <2>6. e \in Pair(b, a)
    BY <2>4, <2>5 DEF Pair
  <2>7. c = ConflictOf("REQUIRED_FIELD_OVERLAP", "MEDIUM", b.name, score, "")
    BY <2>3
  <2>8. Unnamed(e) = Unnamed(c)
    BY ONLY <2>5, <2>7, RenamedAlike
  <2>. QED BY <2>6, <2>8
<1>. QED BY <1>1, <1>2, <1>3 DEF Pair

(* Stages 1 and 2 say of the candidate against a tool what they say of     *)
(* that tool against the candidate.                                        *)
THEOREM DirectionDoesNotMatter == GateSpec => []StagesAreSymmetric
<1>1. GateInv => StagesAreSymmetric
  <2>. SUFFICES ASSUME GateInv, answer # NoAnswer, NEW tool \in answer.seen
                PROVE  {Unnamed(c) : c \in Pair(answer.candidate, tool)} =
                       {Unnamed(c) : c \in Pair(tool, answer.candidate)}
    BY DEF StagesAreSymmetric
  <2>1. answer.candidate \in ToolDef /\ tool \in ToolDef
    BY DEF GateInv, AnswerOK
  <2>2. ASSUME NEW a \in ToolDef, NEW b \in ToolDef
        PROVE  {Unnamed(c) : c \in Pair(a, b)} \subseteq {Unnamed(d) : d \in Pair(b, a)}
    BY FoundBothWays
  <2>. QED BY <2>1, <2>2
<1>. QED BY <1>1, GateInitInv, GateNextInv, PTL DEF GateSpec

-----------------------------------------------------------------------------
(* The sync.                                                               *)

(* Of a list only the names and a definition for each of them matter.      *)
LEMMA RemoteMapNames ==
  ASSUME NEW list
  PROVE  DOMAIN RemoteMap(list) = {list[i][1] : i \in DOMAIN list}
BY DEF RemoteMap

(* The tools a sync loads.                                                 *)
LEMMA DbMapIs ==
  /\ DOMAIN DbMap = {m \in DOMAIN row : row[m].status = "active"}
  /\ \A n \in DOMAIN DbMap : DbMap[n] = row[n].definition
BY DEF DbMap

(* What the sync loads after the row of one name has been written.         *)
LEMMA DbMapAfter ==
  ASSUME NEW n, NEW r, Write(n, r)
  PROVE  /\ r.status = "active" => DOMAIN DbMap' = DOMAIN DbMap \cup {n}
         /\ r.status # "active" => DOMAIN DbMap' = DOMAIN DbMap \ {n}
         /\ \A m \in DOMAIN DbMap \ {n} : m \in DOMAIN DbMap' /\ DbMap'[m] = DbMap[m]
         /\ r.status = "active" => DbMap'[n] = r.definition
<1>1. /\ DOMAIN row' = DOMAIN row \cup {n}
      /\ row'[n] = r
      /\ \A m \in DOMAIN row \ {n} : row'[m] = row[m]
  BY DEF Write
<1>2. /\ DOMAIN DbMap' = {m \in DOMAIN row' : row'[m].status = "active"}
      /\ \A m \in DOMAIN DbMap' : DbMap'[m] = row'[m].definition
  BY DEF DbMap
<1>. QED BY <1>1, <1>2, DbMapIs

(* A sync whose list and store are functions reports four sets of names.   *)
LEMMA DiffFields ==
  ASSUME NEW map, NEW db
  PROVE  LET d == Diff(map, db) IN
         /\ d.added = DOMAIN map \ DOMAIN db
         /\ d.removed = DOMAIN db \ DOMAIN map
         /\ d.updated = {n \in DOMAIN map \cap DOMAIN db : HasChanged(map[n], db[n])}
         /\ d.unchanged = {n \in DOMAIN map \cap DOMAIN db : ~HasChanged(map[n], db[n])}
         /\ d = [added |-> d.added, removed |-> d.removed, updated |-> d.updated,
                 unchanged |-> d.unchanged]
BY DEF Diff

(* A report and a diff say the same of a name.                             *)
Alike(r, d, m) ==
  /\ m \in r.added <=> m \in d.added
  /\ m \in r.removed <=> m \in d.removed
  /\ m \in r.updated <=> m \in d.updated
  /\ m \in r.unchanged <=> m \in d.unchanged

(* What a diff says of a name depends on what is stored under that name.   *)
LEMMA DiffElsewhere ==
  ASSUME NEW map, NEW db, NEW db2, NEW r, NEW m,
         m \in DOMAIN db <=> m \in DOMAIN db2,
         m \in DOMAIN db => db2[m] = db[m],
         Alike(r, Diff(map, db), m)
  PROVE  Alike(r, Diff(map, db2), m)
<1>. DEFINE d == Diff(map, db)
            e == Diff(map, db2)
<1>1. /\ m \in d.added <=> m \in DOMAIN map /\ m \notin DOMAIN db
      /\ m \in d.removed <=> m \in DOMAIN db /\ m \notin DOMAIN map
      /\ m \in d.updated <=> m \in DOMAIN map /\ m \in DOMAIN db /\ HasChanged(map[m], db[m])
      /\ m \in d.unchanged <=> m \in DOMAIN map /\ m \in DOMAIN db /\ ~HasChanged(map[m], db[m])
  BY DiffFields
<1>2. /\ m \in e.added <=> m \in DOMAIN map /\ m \notin DOMAIN db2
      /\ m \in e.removed <=> m \in DOMAIN db2 /\ m \notin DOMAIN map
      /\ m \in e.updated <=> m \in DOMAIN map /\ m \in DOMAIN db2 /\ HasChanged(map[m], db2[m])
      /\ m \in e.unchanged <=> m \in DOMAIN map /\ m \in DOMAIN db2 /\ ~HasChanged(map[m], db2[m])
  BY DiffFields
<1>3. m \in DOMAIN db => (HasChanged(map[m], db[m]) <=> HasChanged(map[m], db2[m]))
  OBVIOUS
<1>. HIDE DEF d, e
<1>4. Alike(r, d, m)
  BY DEF d
<1>5. Alike(r, e, m)
  BY <1>1, <1>2, <1>3, <1>4 DEF Alike
<1>. QED BY <1>5 DEF e

(* A name listed and stored alike is an unchanged one, and nothing else.   *)
LEMMA DiffSettled ==
  ASSUME NEW map, NEW db, NEW m, m \in DOMAIN map, m \in DOMAIN db,
         ~HasChanged(map[m], db[m])
  PROVE  LET d == Diff(map, db) IN
         m \notin d.added /\ m \notin d.removed /\ m \notin d.updated /\ m \in d.unchanged
BY DiffFields

(* A name neither listed nor stored is on no list.                         *)
LEMMA DiffGone ==
  ASSUME NEW map, NEW db, NEW m, m \notin DOMAIN map, m \notin DOMAIN db
  PROVE  LET d == Diff(map, db) IN
         m \notin d.added /\ m \notin d.removed /\ m \notin d.updated /\ m \notin d.unchanged
BY DiffFields

(* A definition that was written whole, or without a schema where none is  *)
(* stored, is not a change of what is stored.                              *)
LEMMA UpdatedIsUnchanged ==
  ASSUME NEW old, NEW new,
         new.input_schema # NoSchema \/ Updated(old, new).input_schema = NoSchema
  PROVE  ~HasChanged(new, Updated(old, new))
<1>1. Updated(old, new).description = new.description
  BY DEF Updated
<1>2. new.input_schema # NoSchema => Updated(old, new).input_schema = new.input_schema
  BY DEF Updated
<1>. QED BY <1>1, <1>2 DEF HasChanged

(* What cannot be settled, name by name.                                   *)
LEMMA UnsettledAre ==
  ASSUME NEW map, NEW db
  PROVE  /\ \A n \in DOMAIN map : n \in DOMAIN Bare /\ Bare[n] # n =>
              n \in Unsettled(map, db) /\ Bare[n] \in Unsettled(map, db)
         /\ \A n \in DOMAIN map : n \in DOMAIN db /\ map[n].input_schema = NoSchema
              /\ db[n].input_schema # NoSchema => n \in Unsettled(map, db)
         /\ \A m \in Unsettled(map, db) :
              \/ \E n \in DOMAIN map :
                   n \in DOMAIN Bare /\ Bare[n] # n /\ (m = n \/ m = Bare[n])
              \/ /\ m \in DOMAIN map /\ m \in DOMAIN db
                 /\ map[m].input_schema = NoSchema /\ db[m].input_schema # NoSchema
BY DEF Unsettled

(* It still cannot be, whatever is written under another name, and under   *)
(* its own as long as a schema that is stored stays one.                   *)
LEMMA UnsettledStays ==
  ASSUME NEW map, NEW db, NEW db2, NEW k,
         \A m \in DOMAIN db : m # k => m \in DOMAIN db2 /\ db2[m] = db[m],
         k \in DOMAIN db /\ k \in DOMAIN map /\ db[k].input_schema # NoSchema =>
           k \in DOMAIN db2 /\ db2[k].input_schema # NoSchema
  PROVE  Unsettled(map, db) \subseteq Unsettled(map, db2)
<1>. SUFFICES ASSUME NEW m \in Unsettled(map, db) PROVE m \in Unsettled(map, db2)
  OBVIOUS
<1>1. CASE \E n \in DOMAIN map :
             n \in DOMAIN Bare /\ Bare[n] # n /\ (m = n \/ m = Bare[n])
  BY <1>1, UnsettledAre
<1>2. CASE /\ m \in DOMAIN map /\ m \in DOMAIN db
           /\ map[m].input_schema = NoSchema /\ db[m].input_schema # NoSchema
  <2>1. m \in DOMAIN db2 /\ db2[m].input_schema # NoSchema
    BY <1>2
  <2>. QED BY <1>2, <2>1, UnsettledAre
<1>. QED BY <1>1, <1>2, UnsettledAre

\* What a report r says is right of what is listed and stored: a further
\* diff says the same of every name that can be settled.
Right(r, map, db) ==
  /\ \A m : m \notin Unsettled(map, db) => Alike(r, Diff(map, db), m)
  /\ r.added \subseteq DOMAIN map
  /\ r.unchanged \subseteq DOMAIN map
  /\ r.updated \subseteq DOMAIN map \cap DOMAIN db
  /\ r.removed \subseteq DOMAIN db
  /\ r.removed \cap DOMAIN map = {}
  /\ r = [added |-> r.added, removed |-> r.removed, updated |-> r.updated,
          unchanged |-> r.unchanged]

SyncInv == Right(report, RemoteMap(listed), DbMap)

(* A diff is right.                                                        *)
LEMMA DiffIsRight ==
  ASSUME NEW map, NEW db
  PROVE  Right(Diff(map, db), map, db)
<1>. DEFINE d == Diff(map, db)
<1>1. /\ d.added \subseteq DOMAIN map
      /\ d.unchanged \subseteq DOMAIN map
      /\ d.updated \subseteq DOMAIN map \cap DOMAIN db
      /\ d.removed \subseteq DOMAIN db
      /\ d.removed \cap DOMAIN map = {}
      /\ d = [added |-> d.added, removed |-> d.removed, updated |-> d.updated,
              unchanged |-> d.unchanged]
  BY DiffFields
<1>2. \A m : Alike(d, d, m)
  BY DEF Alike
<1>. QED BY <1>1, <1>2 DEF Right

\* The report without a name.
Struck(r, n, map) ==
  [added |-> r.added \ {n}, removed |-> r.removed \ {n}, updated |-> r.updated \ {n},
   unchanged |-> r.unchanged \cup ({n} \cap DOMAIN map)]

(* Once the row named k has been written, a report without the name n is   *)
(* right if k is n and its diff is settled, or neither can be settled.     *)
LEMMA StruckIsRight ==
  ASSUME NEW map, NEW db, NEW db2, NEW r, NEW n, NEW k,
         Right(r, map, db),
         \A m : m # k => (m \in DOMAIN db <=> m \in DOMAIN db2),
         \A m \in DOMAIN db : m # k => db2[m] = db[m],
         k \in DOMAIN db /\ k \in DOMAIN map /\ db[k].input_schema # NoSchema =>
           k \in DOMAIN db2 /\ db2[k].input_schema # NoSchema,
         k \in r.updated \ {n} => k \in DOMAIN db2,
         k \in r.removed \ {n} => k \in DOMAIN db2,
         n = k \/ (n \in Unsettled(map, db) /\ k \in Unsettled(map, db)),
         n = k /\ n \notin Unsettled(map, db2) =>
           \/ n \in DOMAIN map /\ n \in DOMAIN db2 /\ ~HasChanged(map[n], db2[n])
           \/ n \notin DOMAIN map /\ n \notin DOMAIN db2
  PROVE  Right(Struck(r, n, map), map, db2)
<1>. DEFINE s == Struck(r, n, map)
<1>1. /\ s.added = r.added \ {n} /\ s.removed = r.removed \ {n}
      /\ s.updated = r.updated \ {n}
      /\ s.unchanged = r.unchanged \cup ({n} \cap DOMAIN map)
      /\ s = [added |-> s.added, removed |-> s.removed, updated |-> s.updated,
              unchanged |-> s.unchanged]
  BY DEF Struck
<1>2. Unsettled(map, db) \subseteq Unsettled(map, db2)
  BY UnsettledStays
<1>. HIDE DEF s
<1>3. ASSUME NEW m, m \notin Unsettled(map, db2) PROVE Alike(s, Diff(map, db2), m)
  <2>1. Alike(r, Diff(map, db), m)
    BY <1>2, <1>3 DEF Right
  <2>2. CASE m = n
    <3>1. n = k
      BY <1>2, <1>3, <2>2
    <3>2. CASE n \in DOMAIN map /\ n \in DOMAIN db2 /\ ~HasChanged(map[n], db2[n])
      BY <1>1, <2>2, <3>2, DiffSettled DEF Alike
    <3>3. CASE n \notin DOMAIN map /\ n \notin DOMAIN db2
      <4>1. n \notin r.unchanged
        BY <3>3 DEF Right
      <4>. QED BY <1>1, <2>2, <3>3, <4>1, DiffGone DEF Alike
    <3>. QED BY <1>3, <2>2, <3>1, <3>2, <3>3
  <2>3. CASE m # n
    <3>1. m # k
      BY <1>2, <1>3, <2>3
    <3>2. Alike(r, Diff(map, db2), m)
      BY <2>1, <3>1, DiffElsewhere
    <3>3. /\ m \in s.added <=> m \in r.added
          /\ m \in s.removed <=> m \in r.removed
          /\ m \in s.updated <=> m \in r.updated
          /\ m \in s.unchanged <=> m \in r.unchanged
      BY <1>1, <2>3
    <3>. QED BY <3>2, <3>3 DEF Alike
  <2>. QED BY <2>2, <2>3
<1>4. /\ s.added \subseteq DOMAIN map /\ s.unchanged \subseteq DOMAIN map
      /\ s.removed \cap DOMAIN map = {}
  BY <1>1 DEF Right
<1>5. s.updated \subseteq DOMAIN map \cap DOMAIN db2 /\ s.removed \subseteq DOMAIN db2
  BY <1>1 DEF Right
<1>6. Right(s, map, db2)
  BY <1>1, <1>3, <1>4, <1>5 DEF Right
<1>. QED BY <1>6 DEF s

(* Nothing is listed, stored or reported at first.                         *)
LEMMA SyncInitInv == SyncInit => SyncInv
<1>. SUFFICES ASSUME SyncInit PROVE SyncInv
  OBVIOUS
<1>0. DOMAIN listed = {} /\ DOMAIN row = {}
  BY DEF SyncInit
<1>1. DOMAIN RemoteMap(listed) = {} /\ DOMAIN DbMap = {}
  BY <1>0, DbMapIs DEF RemoteMap
<1>2. Diff(RemoteMap(listed), DbMap) = Diff(<<>>, <<>>)
  BY <1>1 DEF Diff
<1>3. report = Diff(RemoteMap(listed), DbMap)
  BY <1>2 DEF SyncInit
<1>. QED BY <1>3, DiffIsRight DEF SyncInv

(* A registration or a PUT that leaves an active row, and whose name is    *)
(* then struck.                                                            *)
LEMMA SettleInv ==
  ASSUME SyncInv, NEW n \in DOMAIN RemoteMap(listed), NEW k, NEW r,
         Write(k, r), Strike(n), UNCHANGED listed, r.status = "active",
         k = n \/ (n \in DOMAIN Bare /\ k = Bare[n]),
         k \in DOMAIN DbMap => k = n /\ r.definition = Updated(DbMap[k], RemoteMap(listed)[n]),
         k \notin DOMAIN DbMap =>
           \/ r.definition = RemoteMap(listed)[n]
           \/ \E old : r.definition = Updated(old, RemoteMap(listed)[n])
  PROVE  SyncInv'
<1>1. PICK map : map = RemoteMap(listed)
  OBVIOUS
<1>2. PICK db : db = DbMap
  OBVIOUS
<1>3. PICK db2 : db2 = DbMap'
  OBVIOUS
<1>4. /\ DOMAIN db2 = DOMAIN db \cup {k}
      /\ \A m \in DOMAIN db \ {k} : m \in DOMAIN db2 /\ db2[m] = db[m]
      /\ db2[k] = r.definition
  BY <1>2, <1>3, DbMapAfter
<1>5. k \in DOMAIN db /\ db[k].input_schema # NoSchema => db2[k].input_schema # NoSchema
  BY <1>1, <1>2, <1>4 DEF Updated
<1>6. n = k \/ (n \in Unsettled(map, db) /\ k \in Unsettled(map, db))
  <2>1. n \in DOMAIN map
    BY <1>1
  <2>2. CASE k # n
    BY <2>1, <2>2, UnsettledAre
  <2>. QED BY <2>2
<1>7. ASSUME n = k, n \notin Unsettled(map, db2)
      PROVE  n \in DOMAIN map /\ n \in DOMAIN db2 /\ ~HasChanged(map[n], db2[n])
  <2>1. n \in DOMAIN map /\ n \in DOMAIN db2
    BY <1>1, <1>4, <1>7
  <2>2. map[n].input_schema # NoSchema \/ db2[n].input_schema = NoSchema
    BY <1>7, <2>1, UnsettledAre
  <2>3. CASE db2[n] = map[n]
    BY <2>1, <2>3 DEF HasChanged
  <2>4. CASE \E old : db2[n] = Updated(old, map[n])
    <3>1. PICK old : db2[n] = Updated(old, map[n])
      BY <2>4
    <3>. QED BY <2>1, <2>2, <3>1, UpdatedIsUnchanged
  <2>5. db2[n] = map[n] \/ \E old : db2[n] = Updated(old, map[n])
    BY <1>1, <1>2, <1>4, <1>7
  <2>. QED BY <2>1, <2>3, <2>4, <2>5
<1>8. Right(report, map, db)
  BY <1>1, <1>2 DEF SyncInv
<1>9. Right(Struck(report, n, map), map, db2)
  <2>1. \A m : m # k => (m \in DOMAIN db <=> m \in DOMAIN db2)
    BY <1>4
  <2>2. \A m \in DOMAIN db : m # k => db2[m] = db[m]
    BY <1>4
  <2>3. k \in DOMAIN db2
    BY <1>4
  <2>. QED BY <1>5, <1>6, <1>7, <1>8, <2>1, <2>2, <2>3, StruckIsRight
<1>10. report' = Struck(report, n, map)
  BY <1>1 DEF Strike, Struck
<1>11. RemoteMap(listed)' = map
  BY <1>1 DEF RemoteMap
<1>. QED BY <1>3, <1>9, <1>10, <1>11 DEF SyncInv

(* Every step keeps the invariant: a sync reports the diff, each operation *)
(* of the registry strikes what it settled.                                *)
LEMMA SyncStepInv ==
  ASSUME SyncInv, [SyncNext]_syncVars
  PROVE  SyncInv'
<1>1. ASSUME NEW list, Sync(list) PROVE SyncInv'
  <2>1. DbMap' = DbMap
    BY <1>1 DEF Sync, DbMap
  <2>2. RemoteMap(listed)' = RemoteMap(list)
    BY <1>1 DEF Sync, RemoteMap
  <2>3. report' = Diff(RemoteMap(list), DbMap)
    BY <1>1 DEF Sync
  <2>. QED BY <2>1, <2>2, <2>3, DiffIsRight DEF SyncInv
<1>2. PICK map : map = RemoteMap(listed)
  OBVIOUS
<1>3. PICK db : db = DbMap
  OBVIOUS
<1>4. Right(report, map, db)
  BY <1>2, <1>3 DEF SyncInv
<1>5. ASSUME NEW n \in RemoteName, RegisterAdded(n) PROVE SyncInv'
  <2>1. n \in DOMAIN map
    BY <1>4, <1>5 DEF RegisterAdded, Right
  <2>0. Bare[n] \notin DOMAIN db /\ n \in DOMAIN Bare
    BY <1>3, <1>5, DbMapIs DEF RegisterAdded, Acceptable
  <2>2. CASE Write(Bare[n], RowOf(RemoteMap(listed)[n], "active")) /\ Strike(n)
    <3>0. PICK r : r = RowOf(RemoteMap(listed)[n], "active")
      OBVIOUS
    <3>1. r.status = "active" /\ r.definition = RemoteMap(listed)[n] /\ Write(Bare[n], r)
      BY <2>2, <3>0 DEF RowOf
    <3>. QED BY <1>2, <1>3, <1>5, <2>0, <2>1, <2>2, <3>1, SettleInv DEF RegisterAdded
  <2>3. CASE /\ Write(Bare[n], RowOf(RemoteMap(listed)[n], "pending_approval"))
             /\ UNCHANGED report
    <3>0. PICK r, k : r = RowOf(RemoteMap(listed)[n], "pending_approval") /\ k = Bare[n]
      OBVIOUS
    <3>1. r.status = "pending_approval" /\ Write(k, r) /\ k \notin DOMAIN db
      BY <2>0, <2>3, <3>0 DEF RowOf
    <3>3. DOMAIN DbMap' = DOMAIN db /\ \A m \in DOMAIN db : DbMap'[m] = db[m]
      BY <1>3, <3>1, DbMapAfter
    <3>4. DbMap' = db
      <4>1. DbMap' = [m \in DOMAIN DbMap' |-> DbMap'[m]] /\ db = [m \in DOMAIN db |-> db[m]]
        BY <1>3 DEF DbMap
      <4>. QED BY ONLY <3>3, <4>1
    <3>5. RemoteMap(listed)' = map
      BY <1>2, <1>5 DEF RegisterAdded, RemoteMap
    <3>. QED BY <1>4, <2>3, <3>4, <3>5 DEF SyncInv
  <2>. QED BY <1>5, <2>2, <2>3 DEF RegisterAdded
<1>6. ASSUME NEW n \in RemoteName, Activate(n) PROVE SyncInv'
  <2>0. PICK r : r = RowOf(Updated(row[Bare[n]].definition, RemoteMap(listed)[n]), "active")
    OBVIOUS
  <2>1. /\ r.status = "active" /\ Write(Bare[n], r) /\ Strike(n)
        /\ r.definition = Updated(row[Bare[n]].definition, RemoteMap(listed)[n])
    BY <1>6, <2>0 DEF Activate, Put, RowOf
  <2>2. Bare[n] \notin DOMAIN DbMap /\ n \in DOMAIN Bare
    BY <1>6, DbMapIs DEF Activate
  <2>3. n \in DOMAIN RemoteMap(listed)
    BY <1>2, <1>4, <1>6 DEF Activate, Right
  <2>4. UNCHANGED listed
    BY <1>6 DEF Activate
  <2>. QED BY <2>1, <2>2, <2>3, <2>4, SettleInv
<1>9. ASSUME NEW n \in RemoteName, UpdateChanged(n) PROVE SyncInv'
  <2>1. n \in DOMAIN RemoteMap(listed) /\ n \in DOMAIN DbMap
    BY <1>2, <1>3, <1>4, <1>9 DEF UpdateChanged, Right
  <2>2. row[n].status = "active" /\ DbMap[n] = row[n].definition
    BY <2>1, DbMapIs
  <2>0. PICK r : r = RowOf(Updated(row[n].definition, RemoteMap(listed)[n]), row[n].status)
    OBVIOUS
  <2>3. /\ r.status = "active" /\ Write(n, r) /\ Strike(n)
        /\ r.definition = Updated(DbMap[n], RemoteMap(listed)[n])
    BY <1>9, <2>0, <2>2 DEF UpdateChanged, Put, RowOf
  <2>4. UNCHANGED listed
    BY <1>9 DEF UpdateChanged
  <2>. QED BY <2>1, <2>3, <2>4, SettleInv
<1>7. ASSUME NEW n \in RemoteName, DeprecateRemoved(n) PROVE SyncInv'
  <2>1. n \notin DOMAIN map /\ n \in DOMAIN db
    BY <1>4, <1>7 DEF DeprecateRemoved, Right
  <2>0. PICK r : r = RowOf(row[n].definition, "deprecated")
    OBVIOUS
  <2>2. r.status = "deprecated" /\ Write(n, r)
    BY <1>7, <2>0 DEF DeprecateRemoved, RowOf
  <2>3. PICK db2 : db2 = DbMap'
    OBVIOUS
  <2>4. DOMAIN db2 = DOMAIN db \ {n} /\ \A m \in DOMAIN db \ {n} : db2[m] = db[m]
    BY <1>3, <2>2, <2>3, DbMapAfter
  <2>5. Right(Struck(report, n, map), map, db2)
    <3>1. \A m : m # n => (m \in DOMAIN db <=> m \in DOMAIN db2)
      BY <2>4
    <3>2. \A m \in DOMAIN db : m # n => db2[m] = db[m]
      BY <2>4
    <3>3. n \notin DOMAIN db2
      BY <2>4
    <3>. QED BY <1>4, <2>1, <3>1, <3>2, <3>3, StruckIsRight
  <2>6. report' = Struck(report, n, map)
    BY <1>2, <1>7 DEF DeprecateRemoved, Strike, Struck
  <2>7. RemoteMap(listed)' = map
    BY <1>2, <1>7 DEF DeprecateRemoved, RemoteMap
  <2>. QED BY <2>3, <2>5, <2>6, <2>7 DEF SyncInv
<1>8. ASSUME UNCHANGED syncVars PROVE SyncInv'
  <2>1. RemoteMap(listed)' = RemoteMap(listed) /\ DbMap' = DbMap
    BY <1>8 DEF syncVars, RemoteMap, DbMap
  <2>. QED BY <1>8, <2>1 DEF syncVars, SyncInv
<1>. QED BY <1>1, <1>5, <1>6, <1>7, <1>8, <1>9 DEF SyncNext

(* The four lists of a diff part the names of both sides.                  *)
LEMMA DiffParts ==
  ASSUME NEW map, NEW db
  PROVE  LET d == Diff(map, db)
             lists == {d.added, d.removed, d.updated, d.unchanged}
         IN  /\ UNION lists = DOMAIN map \cup DOMAIN db
             /\ \A a, b \in lists : a = b \/ a \cap b = {}
<1>. DEFINE d == Diff(map, db)
<1>1. /\ d.added = DOMAIN map \ DOMAIN db
      /\ d.removed = DOMAIN db \ DOMAIN map
      /\ d.updated \cup d.unchanged = DOMAIN map \cap DOMAIN db
      /\ d.updated \cap d.unchanged = {}
  BY DiffFields
<1>. HIDE DEF d
<1>2. d.added \cup d.removed \cup d.updated \cup d.unchanged = DOMAIN map \cup DOMAIN db
  BY <1>1
<1>3. /\ d.added \cap d.removed = {} /\ d.added \cap d.updated = {}
      /\ d.added \cap d.unchanged = {} /\ d.removed \cap d.updated = {}
      /\ d.removed \cap d.unchanged = {}
  BY <1>1
<1>4. UNION {d.added, d.removed, d.updated, d.unchanged}
        = d.added \cup d.removed \cup d.updated \cup d.unchanged
  OBVIOUS
<1>. QED BY <1>1, <1>2, <1>3, <1>4 DEF d

(* Whatever is listed and acted on, what is left of a report is, of every  *)
(* name that can be settled, what a further diff of the same list says.    *)
THEOREM SyncingConverges == SyncSpec => []SyncConverges
<1>1. SyncInv => SyncConverges
  <2>. SUFFICES ASSUME SyncInv PROVE SyncConverges
    OBVIOUS
  <2>1. PICK map, db : map = RemoteMap(listed) /\ db = DbMap
    OBVIOUS
  <2>2. PICK d : d = Diff(map, db)
    OBVIOUS
  <2>3. \A m : m \notin Unsettled(map, db) => Alike(report, d, m)
    BY <2>1, <2>2 DEF SyncInv, Right
  <2>4. PICK u : u = Unsettled(map, db)
    OBVIOUS
  <2>5. /\ report.added \ u = d.added \ u /\ report.removed \ u = d.removed \ u
        /\ report.updated \ u = d.updated \ u /\ report.unchanged \ u = d.unchanged \ u
    BY <2>3, <2>4 DEF Alike
  <2>6. DOMAIN d = {"added", "removed", "updated", "unchanged"}
    BY <2>2 DEF Diff
  <2>7. \A list \in DOMAIN d : report[list] \ u = d[list] \ u
    BY <2>5, <2>6
  <2>. QED BY <2>1, <2>2, <2>4, <2>7, DiffParts DEF SyncConverges
<1>2. SyncInv /\ [SyncNext]_syncVars => SyncInv'
  BY SyncStepInv
<1>. QED BY <1>1, <1>2, SyncInitInv, PTL DEF SyncSpec

-----------------------------------------------------------------------------
(* The types of all of them.                                               *)

\* What is found has a score of 0 to 100 percent.
Scored(found) == \A c \in found : c.score \in 0 .. 100 * SCALE

(* A product of numbers in their bounds.                                   *)
LEMMA Scales ==
  /\ SCALE = 60
  /\ \A j \in 0 .. SCALE : j * 60 \in 0 .. 100 * SCALE /\ j * 70 \in 0 .. 100 * SCALE
  /\ \A d \in Nat : d <= 2 => (70 - d * 10) * SCALE \in 0 .. 100 * SCALE
  /\ \A h \in 0 .. 100 : h * SCALE \in 0 .. 100 * SCALE
  /\ 100 * SCALE \in 0 .. 100 * SCALE
BY DEF SCALE

(* A share is at most the whole.                                           *)
LEMMA ShareAtMostOne ==
  ASSUME NEW n \in Nat, NEW m \in Nat, n <= m, m > 0
  PROVE  (SCALE * n) \div m \in 0 .. SCALE
<1>1. SCALE * n <= SCALE * m /\ SCALE * n \in Nat /\ SCALE * m \in Nat
  BY DEF SCALE
<1>2. (SCALE * n) \div m <= SCALE
  BY <1>1 DEF SCALE
<1>3. (SCALE * n) \div m >= 0
  BY <1>1
<1>. QED BY <1>1, <1>2, <1>3 DEF SCALE

(* The similarity of two finite sets, not both empty.                      *)
LEMMA JaccardIsShare ==
  ASSUME NEW S, NEW T, IsFiniteSet(S), IsFiniteSet(T), S # {}
  PROVE  Jaccard(S, T) \in 0 .. SCALE
<1>1. IsFiniteSet(S \cup T) /\ IsFiniteSet(S \cap T)
  BY FS_Union, FS_Intersection
<1>2. Cardinality(S \cap T) \in Nat /\ Cardinality(S \cup T) \in Nat
  BY <1>1, FS_CardinalityType
<1>3. Cardinality(S \cap T) <= Cardinality(S \cup T)
  BY <1>1, FS_Subset
<1>4. Cardinality(S \cup T) # 0
  BY <1>1, FS_EmptySet
<1>. QED BY <1>2, <1>3, <1>4, ShareAtMostOne DEF Jaccard

(* What the stages say of two tools has a score.                           *)
LEMMA PairScored ==
  ASSUME NEW a \in ToolDef, NEW b \in ToolDef
  PROVE  Scored(Pair(a, b))
<1>. SUFFICES ASSUME NEW c \in Pair(a, b) PROVE c.score \in 0 .. 100 * SCALE
  BY DEF Scored
<1>0. /\ a.name \in ToolName /\ b.name \in ToolName
      /\ IsFiniteSet(a.required) /\ IsFiniteSet(b.required)
  BY GateAssumption
<1>1. CASE c \in Lexical(a, b)
  <2>1. PICK d, j : d = EditDistance(a, b) /\ j = Jaccard(Tokens[a.name], Tokens[b.name])
    OBVIOUS
  <2>2. d \in Nat
    BY <1>0, <2>1, DetectionAssumption DEF EditDistance
  <2>3. j \in 0 .. SCALE
    BY <1>0, <2>1, DetectionAssumption, JaccardIsShare
  <2>4. \/ c = ConflictOf("EXACT_NAME", "CRITICAL", b.name, 100 * SCALE, "")
        \/ /\ d <= 2
           /\ c = ConflictOf("SIMILAR_NAME", "MEDIUM", b.name, (70 - d * 10) * SCALE, "")
        \/ c = ConflictOf("SIMILAR_NAME", "MEDIUM", b.name, j * 60, "")
    BY <1>1, <2>1 DEF Lexical
  <2>5. PICK type, severity, score :
          /\ c = ConflictOf(type, severity, b.name, score, "")
          /\ score = 100 * SCALE \/ (d <= 2 /\ score = (70 - d * 10) * SCALE) \/ score = j * 60
    BY ONLY <2>4, Zenon
  <2>6. c.score = score
    BY <2>5 DEF ConflictOf
  <2>7. CASE score = 100 * SCALE
    BY ONLY <2>7, <2>6, Scales
  <2>8. CASE d <= 2 /\ score = (70 - d * 10) * SCALE
    <3>1. (70 - d * 10) * SCALE \in 0 .. 100 * SCALE
      BY ONLY <2>2, <2>8, Scales
    <3>. QED BY ONLY <2>8, <2>6, <3>1
  <2>9. CASE score = j * 60
    BY ONLY <2>3, <2>9, <2>6, Scales
  <2>. QED BY ONLY <2>5, <2>7, <2>8, <2>9
<1>2. CASE c \in TypeCollisions(a, b)
  <2>1. PICK p : c = ConflictOf("TYPE_COLLISION", "MEDIUM", b.name, 65 * SCALE, p)
    BY <1>2 DEF TypeCollisions
  <2>2. c.score = 65 * SCALE
    BY <2>1 DEF ConflictOf
  <2>. QED BY <2>2, Scales
<1>3. CASE c \in RequiredOverlap(a, b)
  <2>1. PICK j : j = Jaccard(a.required, b.required)
    OBVIOUS
  <2>2. a.required # {} /\ c = ConflictOf("REQUIRED_FIELD_OVERLAP", "MEDIUM", b.name, j * 70, "")
    BY <1>3, <2>1 DEF RequiredOverlap
  <2>3. j \in 0 .. SCALE
    BY <1>0, <2>1, <2>2, JaccardIsShare
  <2>4. c.score = j * 70
    BY <2>2 DEF ConflictOf
  <2>. QED BY <2>3, <2>4, Scales
<1>. QED BY <1>1, <1>2, <1>3 DEF Pair

(* So has whatever a run finds, with or without the index.                 *)
LEMMA RunsScored ==
  ASSUME NEW a \in ToolDef, NEW existing, existing \subseteq ToolDef
  PROVE  /\ Scored(RunSync(a, existing))
         /\ \A hits \in Hits : Scored(RunAsync(a, existing, hits))
<1>1. Scored(RunSync(a, existing))
  BY PairScored DEF RunSync, Scored
<1>2. ASSUME NEW hits \in Hits PROVE Scored(Semantic(hits))
  <2>. SUFFICES ASSUME NEW c \in Semantic(hits) PROVE c.score \in 0 .. 100 * SCALE
    BY DEF Scored
  <2>1. PICK h \in hits :
          c = ConflictOf("SEMANTIC_OVERLAP", SemanticSeverity(h.score), h.name,
                         h.score * SCALE, "")
    BY DEF Semantic
  <2>2. c.score = h.score * SCALE
    BY <2>1 DEF ConflictOf
  <2>3. h.score \in 0 .. 100
    BY GateAssumption
  <2>. QED BY <2>2, <2>3, Scales
<1>. QED BY <1>1, <1>2 DEF RunAsync, Scored

(* Some rank is the least of those there are.                              *)
LEMMA LeastOfFive ==
  ASSUME NEW S, S \subseteq 0 .. 4, S # {}
  PROVE  \E r \in S : \A q \in S : r <= q
<1>1. \A q \in S : q \in Int /\ (q = 0 \/ q = 1 \/ q = 2 \/ q = 3 \/ q = 4)
  BY \A q \in 0 .. 4 : q \in Int /\ (q = 0 \/ q = 1 \/ q = 2 \/ q = 3 \/ q = 4)
<1>2. CASE 0 \in S
  BY <1>1, <1>2
<1>3. CASE 0 \notin S /\ 1 \in S
  BY <1>1, <1>3
<1>4. CASE 0 \notin S /\ 1 \notin S /\ 2 \in S
  BY <1>1, <1>4
<1>5. CASE 0 \notin S /\ 1 \notin S /\ 2 \notin S /\ 3 \in S
  BY <1>1, <1>5
<1>6. CASE 0 \notin S /\ 1 \notin S /\ 2 \notin S /\ 3 \notin S
  <2>1. PICK r \in S : TRUE
    OBVIOUS
  <2>2. \A q \in S : q = 4
    BY <1>1, <1>6
  <2>. QED BY <2>1, <2>2
<1>. QED BY <1>2, <1>3, <1>4, <1>5, <1>6

(* The worst of what has a severity has one.                               *)
LEMMA HighestIsRanked ==
  ASSUME NEW found, Ranked(found)
  PROVE  HighestSeverity(found) \in Severity \cup {""}
<1>. DEFINE Worst(c) ==
       \A d \in found : SEVERITY_ORDER[c.severity] <= SEVERITY_ORDER[d.severity]
<1>1. ASSUME found # {} PROVE \E c \in found : Worst(c)
  <2>. DEFINE ranks == {SEVERITY_ORDER[c.severity] : c \in found}
  <2>1. ranks \subseteq 0 .. 4 /\ ranks # {}
    BY <1>1, Ranks DEF Ranked
  <2>2. PICK r \in ranks : \A q \in ranks : r <= q
    <3>. HIDE DEF ranks
    <3>. QED BY <2>1, LeastOfFive
  <2>. QED BY <2>2
<1>2. PICK w : w = CHOOSE d \in found : Worst(d)
  OBVIOUS
<1>3. found # {} => w \in found
  BY <1>1, <1>2
<1>. QED BY <1>2, <1>3 DEF HighestSeverity, Ranked

(* Gate answers have their type.                                           *)
LEMMA GateTypes == GateInv => GateTypeOK
<1>. SUFFICES ASSUME GateInv, answer # NoAnswer
              PROVE  /\ answer.env \in Environment \cup {NoEnvironment}
                     /\ answer.candidate \in ToolDef
                     /\ answer.seen \subseteq ToolDef
                     /\ \A c \in answer.found :
                          c.severity \in Severity /\ c.score \in 0 .. (100 * SCALE)
                     /\ answer.verdict # <<>> =>
                          answer.verdict[1].blocking_severity \in Severity \cup {""}
  BY DEF GateTypeOK, GateInv
<1>1. /\ answer.env \in Environment \cup {NoEnvironment}
      /\ answer.candidate \in ToolDef
      /\ answer.seen \subseteq ToolDef
  BY DEF GateInv, AnswerOK
<1>2. PICK found : found = answer.found
  OBVIOUS
<1>3. Ranked(found) /\ Scored(found)
  <2>1. CASE found = RunSync(answer.candidate, answer.seen)
    BY <1>1, <2>1, RunSyncRanked, RunsScored
  <2>2. CASE found = RunAsync(answer.candidate, answer.seen, answer.hits)
             /\ answer.hits \in Hits
    <3>1. Ranked(found)
      BY <2>2, RunSyncRanked, SemanticRanked DEF RunAsync, Ranked
    <3>2. Scored(found)
      BY <1>1, <2>2, RunsScored
    <3>. QED BY <3>1, <3>2
  <2>. QED BY <1>2, <2>1, <2>2 DEF GateInv, AnswerOK
<1>4. answer.verdict # <<>> => answer.verdict[1].blocking_severity \in Severity \cup {""}
  <2>. SUFFICES ASSUME answer.verdict # <<>>
                PROVE  answer.verdict[1].blocking_severity \in Severity \cup {""}
    OBVIOUS
  <2>1. answer.verdict = <<Verdict(answer.env, found)>>
    BY <1>2 DEF GateInv, AnswerOK
  <2>2. answer.verdict[1] = Verdict(answer.env, found)
    BY <2>1
  <2>3. Ranked({c \in found : Blocks(answer.env, c)})
    BY <1>3 DEF Ranked
  <2>4. PICK worst : worst = HighestSeverity({c \in found : Blocks(answer.env, c)})
    OBVIOUS
  <2>5. worst \in Severity \cup {""}
    BY ONLY <2>3, <2>4, HighestIsRanked
  <2>6. answer.verdict[1].blocking_severity = worst
    BY <2>2, <2>4, VerdictFields
  <2>. QED BY <2>5, <2>6
<1>. QED BY <1>1, <1>2, <1>3, <1>4 DEF Ranked, Scored

(* Of a list of pairs every name has a definition of its own.              *)
LEMMA RemoteMapTypes ==
  ASSUME NEW k \in Nat, NEW list \in [1 .. k -> RemoteName \X Definition]
  PROVE  /\ DOMAIN RemoteMap(list) \subseteq RemoteName
         /\ \A n \in DOMAIN RemoteMap(list) : RemoteMap(list)[n] \in Definition
<1>. DEFINE LastOf(n, i) == list[i][1] = n /\ \A j \in DOMAIN list : list[j][1] = n => j <= i
<1>1. DOMAIN list = 1 .. k
  OBVIOUS
<1>2. ASSUME NEW i \in 1 .. k PROVE list[i][1] \in RemoteName /\ list[i][2] \in Definition
  OBVIOUS
<1>3. DOMAIN RemoteMap(list) = {list[i][1] : i \in 1 .. k}
  BY <1>1, RemoteMapNames
<1>4. ASSUME NEW n \in DOMAIN RemoteMap(list)
      PROVE  RemoteMap(list)[n] \in Definition
  <2>1. PICK s : s = {i \in 1 .. k : list[i][1] = n}
    OBVIOUS
  <2>2. s \in SUBSET (1 .. k) /\ s # {}
    <3>1. PICK i \in 1 .. k : list[i][1] = n
      BY <1>4, <1>3
    <3>. QED BY <2>1, <3>1
  <2>3. PICK i \in s : \A j \in s : i >= j
    BY <2>2, HasGreatest
  <2>4. i \in DOMAIN list /\ LastOf(n, i)
    BY <1>1, <2>1, <2>2, <2>3
  <2>5. PICK l : l = CHOOSE m \in DOMAIN list : LastOf(n, m)
    OBVIOUS
  <2>6. l \in DOMAIN list
    BY <2>4, <2>5
  <2>7. RemoteMap(list)[n] = list[l][2]
    BY <1>4, <2>5, RemoteMapNames DEF RemoteMap
  <2>. QED BY <1>1, <1>2, <2>6, <2>7
<1>5. DOMAIN RemoteMap(list) \subseteq RemoteName
  BY <1>2, <1>3
<1>. QED BY ONLY <1>4, <1>5

\* A row of a name.
IsRow(r) ==
  r \in [definition : Stored, status : {"active", "pending_approval", "deprecated"}]

\* The sync with the types of what it has: the list is a sequence.
SyncAllInv ==
  /\ SyncInv
  /\ \E k \in Nat : listed \in [1 .. k -> RemoteName \X Definition]
  /\ DOMAIN row \subseteq RemoteName
  /\ \A n \in DOMAIN row : IsRow(row[n])

(* The report names tools.                                                 *)
LEMMA SyncInvTypes == SyncAllInv => SyncTypeOK
<1>. SUFFICES ASSUME SyncAllInv PROVE SyncTypeOK
  OBVIOUS
<1>1. PICK k \in Nat : listed \in [1 .. k -> RemoteName \X Definition]
  BY DEF SyncAllInv
<1>2. PICK map, db : map = RemoteMap(listed) /\ db = DbMap
  OBVIOUS
<1>3. DOMAIN map \subseteq RemoteName /\ DOMAIN db \subseteq RemoteName
  BY <1>1, <1>2, RemoteMapTypes, DbMapIs DEF SyncAllInv
<1>4. Right(report, map, db)
  BY <1>2 DEF SyncAllInv, SyncInv
<1>5. /\ report.added \subseteq RemoteName /\ report.removed \subseteq RemoteName
      /\ report.updated \subseteq RemoteName /\ report.unchanged \subseteq RemoteName
      /\ report = [added |-> report.added, removed |-> report.removed,
                   updated |-> report.updated, unchanged |-> report.unchanged]
  BY <1>3, <1>4 DEF Right
<1>6. report \in [{"added", "removed", "updated", "unchanged"} -> SUBSET RemoteName]
  BY <1>5
<1>7. \A i \in DOMAIN listed : listed[i] \in RemoteName \X Definition
  BY <1>1
<1>. QED BY <1>6, <1>7 DEF SyncTypeOK, SyncAllInv, IsRow

(* A listed definition may be stored.                                      *)
LEMMA StoredListings ==
  ASSUME NEW d \in Definition
  PROVE  d \in Stored
<1>1. d = [description |-> d.description, input_schema |-> d.input_schema]
  BY McpSyncAssumption
<1>. QED BY <1>1 DEF Stored

(* So may one whose schema was kept.                                       *)
LEMMA UpdatedStored ==
  ASSUME NEW old \in Stored, NEW new \in Stored
  PROVE  Updated(old, new) \in Stored
BY DEF Updated, Stored

(* Nothing has its type.                                                   *)
LEMMA SyncAllInit == SyncInit => SyncAllInv
<1>. SUFFICES ASSUME SyncInit PROVE SyncAllInv
  OBVIOUS
<1>1. DOMAIN row = {}
  BY EmptyFacts DEF SyncInit
<1>2. listed \in [1 .. 0 -> RemoteName \X Definition]
  BY EmptyFacts DEF SyncInit
<1>. QED BY <1>1, <1>2, SyncInitInv DEF SyncAllInv

(* Every step keeps the types.                                             *)
LEMMA SyncAllNext == SyncAllInv /\ [SyncNext]_syncVars => SyncAllInv'
<1>. SUFFICES ASSUME SyncAllInv, [SyncNext]_syncVars PROVE SyncAllInv'
  OBVIOUS
<1>1. SyncInv'
  BY SyncStepInv DEF SyncAllInv
<1>2. PICK k \in Nat : listed \in [1 .. k -> RemoteName \X Definition]
  BY DEF SyncAllInv
<1>3. PICK map : map = RemoteMap(listed)
  OBVIOUS
<1>4. \A n \in DOMAIN map : map[n] \in Definition
  BY <1>2, <1>3, RemoteMapTypes
<1>5. DOMAIN map = {listed[i][1] : i \in DOMAIN listed}
  BY <1>3, RemoteMapNames
<1>6. /\ report.added \subseteq DOMAIN map
      /\ report.updated \subseteq DOMAIN map \cap DOMAIN DbMap
      /\ report.removed \subseteq DOMAIN DbMap
  BY <1>3 DEF SyncAllInv, SyncInv, Right
<1>7. ASSUME NEW n \in RemoteName, NEW r, IsRow(r), Write(n, r), UNCHANGED listed
      PROVE  SyncAllInv'
  <2>1. /\ DOMAIN row' = DOMAIN row \cup {n}
        /\ row'[n] = r
        /\ \A m \in DOMAIN row \ {n} : row'[m] = row[m]
    BY <1>7 DEF Write
  <2>2. \A m \in DOMAIN row' : IsRow(row'[m])
    BY <1>7, <2>1 DEF SyncAllInv
  <2>3. DOMAIN row' \subseteq RemoteName
    BY <2>1 DEF SyncAllInv
  <2>4. listed' \in [1 .. k -> RemoteName \X Definition]
    BY <1>2, <1>7
  <2>. QED BY <1>1, <2>2, <2>3, <2>4 DEF SyncAllInv
<1>8. ASSUME NEW d, d \in Stored, NEW status \in {"active", "pending_approval", "deprecated"}
      PROVE  IsRow(RowOf(d, status))
  BY <1>8 DEF RowOf, IsRow
<1>13. ASSUME NEW n \in DOMAIN map PROVE map[n] \in Stored
  BY <1>4, StoredListings
<1>14. ASSUME NEW old \in Stored, NEW n \in DOMAIN map PROVE Updated(old, map[n]) \in Stored
  BY <1>13, <1>14, UpdatedStored
<1>9. ASSUME NEW l \in 0 .. MaxListed, NEW list \in [1 .. l -> RemoteName \X Definition],
             Sync(list)
      PROVE  SyncAllInv'
  <2>1. listed' = list /\ row' = row /\ l \in Nat
    BY <1>9 DEF Sync
  <2>. QED BY <1>1, <1>9, <2>1 DEF SyncAllInv
<1>10. ASSUME NEW n \in RemoteName, RegisterAdded(n) PROVE SyncAllInv'
  <2>1. n \in DOMAIN map /\ Bare[n] \in RemoteName
    BY <1>6, <1>10, McpSyncAssumption DEF RegisterAdded, Acceptable
  <2>2. PICK status \in {"active", "pending_approval", "deprecated"} :
          Write(Bare[n], RowOf(map[n], status)) /\ UNCHANGED listed
    BY <1>3, <1>10 DEF RegisterAdded
  <2>. QED BY <1>7, <1>8, <1>13, <2>1, <2>2
<1>15. ASSUME NEW n \in RemoteName, Activate(n) PROVE SyncAllInv'
  <2>1. n \in DOMAIN map /\ Bare[n] \in RemoteName
    BY <1>6, <1>15, McpSyncAssumption DEF Activate
  <2>2. /\ Write(Bare[n], RowOf(Updated(row[Bare[n]].definition, map[n]), "active"))
        /\ UNCHANGED listed /\ Bare[n] \in DOMAIN row
    BY <1>3, <1>15 DEF Activate, Put
  <2>3. row[Bare[n]].definition \in Stored
    BY <2>2 DEF SyncAllInv, IsRow
  <2>. QED BY <1>7, <1>8, <1>14, <2>1, <2>2, <2>3
<1>16. ASSUME NEW n \in RemoteName, UpdateChanged(n) PROVE SyncAllInv'
  <2>1. n \in DOMAIN map /\ n \in DOMAIN row
    BY <1>6, <1>16, DbMapIs DEF UpdateChanged
  <2>2. /\ Write(n, RowOf(Updated(row[n].definition, map[n]), row[n].status))
        /\ UNCHANGED listed
    BY <1>3, <1>16 DEF UpdateChanged, Put
  <2>3. /\ row[n].definition \in Stored
        /\ row[n].status \in {"active", "pending_approval", "deprecated"}
    BY <2>1 DEF SyncAllInv, IsRow
  <2>. QED BY <1>7, <1>8, <1>14, <2>1, <2>2, <2>3
<1>11. ASSUME NEW n \in RemoteName, DeprecateRemoved(n) PROVE SyncAllInv'
  <2>1. n \in DOMAIN row
    BY <1>6, <1>11, DbMapIs DEF DeprecateRemoved
  <2>2. IsRow(RowOf(row[n].definition, "deprecated"))
    BY <2>1 DEF SyncAllInv, IsRow, RowOf
  <2>. QED BY <1>7, <1>11, <2>2 DEF DeprecateRemoved
<1>12. ASSUME UNCHANGED syncVars PROVE SyncAllInv'
  BY <1>1, <1>12 DEF syncVars, SyncAllInv
<1>. QED BY <1>9, <1>10, <1>11, <1>12, <1>15, <1>16 DEF SyncNext

-----------------------------------------------------------------------------
\* The invariants of the four parts.
PartsInv == LifecycleInv /\ GateInv /\ OrchestrationInv /\ SyncAllInv

(* Each part keeps its invariant, and a step of another leaves it alone.   *)
LEMMA PartsNext ==
  ASSUME PartsInv, [MCNext]_<<part, lifecycleVars, gateVars, orchestrationVars, syncVars>>
  PROVE  PartsInv'
<1>1. [LifecycleNext]_lifecycleVars /\ [GateNext]_gateVars
      /\ [OrchestrationNext]_orchestrationVars /\ [SyncNext]_syncVars
  BY DEF MCNext
<1>. QED BY <1>1, LifecycleNextInv, GateNextInv, OrchestrationNextInv, SyncAllNext
         DEF PartsInv

(* A behaviour of the instance is one of each part: what is proved of the   *)
(* parts holds where they stand side by side.                              *)
THEOREM PartsAreComponents ==
  MCSpec => LifecycleSpec /\ GateSpec /\ OrchestrationSpec /\ SyncSpec
<1>1. MCInit => LifecycleInit /\ GateInit /\ OrchestrationInit /\ SyncInit
  BY DEF MCInit
<1>2. [MCNext]_<<part, lifecycleVars, gateVars, orchestrationVars, syncVars>> =>
        /\ [LifecycleNext]_lifecycleVars /\ [GateNext]_gateVars
        /\ [OrchestrationNext]_orchestrationVars /\ [SyncNext]_syncVars
  BY DEF MCNext
<1>. QED BY <1>1, <1>2, PTL DEF MCSpec, LifecycleSpec, GateSpec, OrchestrationSpec, SyncSpec

(* Every variable of the parts has its type, in whatever order they act.   *)
THEOREM PartsHaveTypes == MCSpec => []TypeOK
<1>1. MCInit => PartsInv
  BY LifecycleInitInv, GateInitInv, OrchestrationInitInv, SyncAllInit DEF MCInit, PartsInv
<1>2. PartsInv /\ [MCNext]_<<part, lifecycleVars, gateVars, orchestrationVars, syncVars>>
        => PartsInv'
  BY PartsNext
<1>3. PartsInv => TypeOK
  BY GateTypes, OrchestrationInvTypes, SyncInvTypes DEF PartsInv, TypeOK, LifecycleInv
<1>. QED BY <1>1, <1>2, <1>3, PTL DEF MCSpec
=============================================================================
