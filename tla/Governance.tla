----------------------------- MODULE Governance -----------------------------
(***************************************************************************)
(* The API process: the approvals and the audit log are module-level       *)
(* singletons (api/v1/approvals.py:43, api/v1/audit_logs.py:48) that live  *)
(* and die together.  A route touches one of them only.                    *)
(***************************************************************************)
EXTENDS Approvals, AuditLog

vars == <<approvalVars, auditVars>>

Init == ApprovalInit /\ AuditInit

\* The process ends, for whatever reason, and is started again.
Restart == ForgetRequests /\ ForgetEntries

Next ==
  \/ ApprovalNext /\ UNCHANGED auditVars
  \/ AuditNext /\ UNCHANGED approvalVars
  \/ Restart

(* Time passes; nobody has to decide, to read or to restart anything.      *)
Spec == Init /\ [][Next]_vars /\ WF_vars(Tick /\ UNCHANGED auditVars)

TypeOK == ApprovalTypeOK /\ AuditTypeOK
=============================================================================
