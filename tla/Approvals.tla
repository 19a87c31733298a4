----------------------------- MODULE Approvals ------------------------------
(***************************************************************************)
(* The approval workflow: core/approval/workflow.py, its service and the   *)
(* routes of api/v1/approvals.py.  The requests live in a dict of the API  *)
(* process.  No handler awaits between its checks and its assignments, so  *)
(* a route is one step; what interleaves is the routes of several callers, *)
(* the passing of time and the end of the process.                         *)
(*                                                                         *)
(* Nothing ever writes the status EXPIRED: a request expires because time  *)
(* passes, and is_expired is computed each time it is asked.               *)
(***************************************************************************)
EXTENDS Access

CONSTANTS
  Request,       \* ids a request can have (uuid4, never drawn twice)
  Environment,
  Role,          \* roles a caller can have, an unknown one included
  TTL,           \* ttl_days
  MaxTime,       \* bound: the last moment of the clock
  NoRequest, None

ASSUME ApprovalAssumption ==
  /\ TTL \in Nat
  /\ MaxTime \in Nat
  /\ None \notin Nat \cup Environment

ApprovalRequest ==
  [environment_id : Environment,
   status : {"PENDING", "APPROVED", "REJECTED"},
   created_at : Nat, decided_at : Nat \cup {None}]

ASSUME NoRequestAssumption == NoRequest \notin ApprovalRequest

VARIABLES
  store,    \* ApprovalService._store: a request, or NoRequest, for each id
  issued,   \* the ids drawn so far, whatever the store has kept of them
  now

approvalVars == <<store, issued, now>>

Stored(q) == store[q] # NoRequest

Pending(q) == Stored(q) /\ store[q].status = "PENDING"

ApprovalInit ==
  /\ store = [q \in Request |-> NoRequest]
  /\ issued = {}
  /\ now = 0

-----------------------------------------------------------------------------
\* Fault: the time to live is compared with the moment of the question.
NeverExpired(q) == Pending(q) /\ now - store[q].created_at > now + TTL

IsExpired(q) == Pending(q) /\ now - store[q].created_at > TTL

\* Fault: _assert_decidable looks at the status alone.
DecidableWhilePending(q) == Pending(q)

Decidable(q) == Pending(q) /\ ~IsExpired(q)

APPROVER_ROLES == {"reviewer", "admin"}

CanApprove(role) == role \in APPROVER_ROLES

(* POST /approvals/.  The last moments of the clock are left to requests   *)
(* that are already there, so that each of them can expire.                *)
Create(q, env, role) ==
  /\ HasMinimumRole(role, "developer")
  /\ q \notin issued
  /\ now + TTL < MaxTime
  /\ issued' = issued \cup {q}
  /\ store' = [store EXCEPT ![q] =
                 [environment_id |-> env, status |-> "PENDING",
                  created_at |-> now, decided_at |-> None]]
  /\ UNCHANGED now

DecidedAs(req, verdict, time) ==
  [environment_id |-> req.environment_id, status |-> verdict,
   created_at |-> req.created_at, decided_at |-> time]

\* Fault: the word of the request is stored as the status.
VerdictAsGiven == [approve |-> "approve", reject |-> "reject"]

Verdict == [approve |-> "APPROVED", reject |-> "REJECTED"]

(* PATCH /approvals/{id}/decide.  A refusal (404, 403, 422) writes nothing.*)
(* The clock is read for the check and again for decided_at, with no await *)
(* in between: the model reads it once.                                    *)
Decide(q, decision, role) ==
  /\ HasMinimumRole(role, "reviewer")
  /\ Stored(q)
  /\ CanApprove(role)
  /\ Decidable(q)
  /\ store' = [store EXCEPT ![q] = DecidedAs(@, Verdict[decision], now)]
  /\ UNCHANGED <<issued, now>>

Tick ==
  /\ now < MaxTime
  /\ now' = now + 1
  /\ UNCHANGED <<store, issued>>

(* The process ends and another one starts with an empty dict.             *)
ForgetRequests ==
  /\ store' = [q \in Request |-> NoRequest]
  /\ UNCHANGED <<issued, now>>

ApprovalNext ==
  \/ \E q \in Request, role \in Role :
       \/ \E env \in Environment : Create(q, env, role)
       \/ \E decision \in DOMAIN Verdict : Decide(q, decision, role)
  \/ Tick

-----------------------------------------------------------------------------
ApprovalTypeOK ==
  /\ store \in [Request -> ApprovalRequest \cup {NoRequest}]
  /\ issued \subseteq Request
  /\ now \in Nat

(* A decision in the store was taken while the request could be decided:   *)
(* not before it was made and not after its time to live, whatever the     *)
(* order of the reviewers, the clock and the restarts; and a request that  *)
(* waits has no decision time.                                             *)
DecidedInTime ==
  \A q \in Request : Stored(q) =>
    LET req == store[q] IN
    /\ req.created_at <= now
    /\ req.status = "PENDING" <=> req.decided_at = None
    /\ req.decided_at # None =>
         /\ req.created_at <= req.decided_at
         /\ req.decided_at <= now
         /\ req.decided_at - req.created_at <= TTL

-----------------------------------------------------------------------------
\* How the workflow sees a request, with the status it never stores.
Outcome(q) ==
  CASE q \notin issued                            -> "none"
    [] q \in issued /\ ~Stored(q)                 -> "forgotten"
    [] q \in issued /\ IsExpired(q)               -> "expired"
    [] q \in issued /\ Decidable(q)               -> "pending"
    [] q \in issued /\ Stored(q) /\ ~Pending(q)   ->
         IF store[q].status = "APPROVED" THEN "approved" ELSE "rejected"

Promise == INSTANCE ApprovalPromise WITH outcome <- [q \in Request |-> Outcome(q)]

(* The store, the clock and the restarts together give each request the    *)
(* life the workflow promises: settled at most once, never decided after   *)
(* it expired, never back to waiting.                                      *)
ImplementsPromise == Promise!Spec

(* No request waits for ever: it is decided, expires or is forgotten.      *)
NoRequestWaitsForever ==
  \A q \in Request : Outcome(q) = "pending" ~> Outcome(q) # "pending"
=============================================================================
