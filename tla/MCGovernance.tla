---------------------------- MODULE MCGovernance ----------------------------
(* The instance TLC checks: two requests of which one may expire while the *)
(* other is decided, every role and one that does not exist, and a log     *)
(* long enough that entries move to another page during a walk.  No        *)
(* property relates the requests to the log, so instead of every           *)
(* interleaving each behaviour is of one of them, the other being at rest. *)
EXTENDS Governance

VARIABLE part    \* what this is a behaviour of

MCInit == Init /\ part \in {"approvals", "log"}

MCNext ==
  /\ UNCHANGED part
  /\ part = "approvals" => UNCHANGED auditVars
  /\ part = "log" => UNCHANGED approvalVars
  /\ Next

MCSpec ==
  /\ MCInit
  /\ [][MCNext]_<<part, vars>>
  /\ WF_<<part, vars>>(part = "approvals" /\ Tick /\ UNCHANGED <<part, auditVars>>)

\* An actor of every symbol that is escaped, and one with a newline.
MCSymbol == {"a", "\\", "=", "|", "\n", "CEF:0"}

MCActor == {<<"|", "\\", "=">>, <<"a", "\n">>}

MCRole == {"viewer", "developer", "reviewer", "admin", "unknown"}
=============================================================================
