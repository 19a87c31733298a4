-------------------------- MODULE ApprovalPromise ---------------------------
(***************************************************************************)
(* What the approval workflow promises of a request: it is opened once,    *)
(* waits, and is then settled once and for all, by a decision or by the    *)
(* end of its time to live.  "PENDING -> APPROVED | REJECTED.  If the      *)
(* request is not decided within ttl_days, it is considered EXPIRED"       *)
(* (core/approval/workflow.py:57).  No clock, no store and no reviewer     *)
(* appear here.  What the process forgets when it stops is gone for good.  *)
(***************************************************************************)
CONSTANT Request

VARIABLE outcome

Settled == {"approved", "rejected", "expired"}

Init == outcome = [q \in Request |-> "none"]

Open(q) ==
  /\ outcome[q] = "none"
  /\ outcome' = [outcome EXCEPT ![q] = "pending"]

Decide(q) ==
  /\ outcome[q] = "pending"
  /\ \E verdict \in {"approved", "rejected"} :
       outcome' = [outcome EXCEPT ![q] = verdict]

\* Time ends for every request that was opened early enough, at once.
Expire(Q) ==
  /\ \A q \in Q : outcome[q] = "pending"
  /\ outcome' = [q \in Request |-> IF q \in Q THEN "expired" ELSE outcome[q]]

Forget ==
  outcome' = [q \in Request |->
                IF outcome[q] = "none" THEN "none" ELSE "forgotten"]

Next ==
  \/ \E q \in Request : Open(q) \/ Decide(q)
  \/ \E Q \in SUBSET Request : Expire(Q)
  \/ Forget

Spec == Init /\ [][Next]_outcome
=============================================================================
