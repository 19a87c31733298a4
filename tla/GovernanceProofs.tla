-------------------------- MODULE GovernanceProofs --------------------------
(***************************************************************************)
(* Proofs about the approvals and the audit log in the process they live   *)
(* in, for any number of requests, environments and roles, any time to     *)
(* live, any actors, page size and length of the log.                      *)
(***************************************************************************)
EXTENDS Governance, FoldLemmas

\* Only ids that were drawn are in the store: a new id meets no old request.
StoredIsIssued == \A q \in Request : Stored(q) => q \in issued

IInv == ApprovalTypeOK /\ DecidedInTime /\ StoredIsIssued

\* A step of the process as the approvals see it.
ApprovalStep == ApprovalNext \/ ForgetRequests \/ UNCHANGED approvalVars

(* The audit log shares the process but no variable of the approvals.      *)
LEMMA StepOfApprovals == [Next]_vars => ApprovalStep
BY DEF Next, Restart, ApprovalStep, vars, approvalVars

(* A request is a record with its four fields, or none.                    *)
LEMMA RequestFields ==
  ASSUME ApprovalTypeOK, NEW q \in Request, Stored(q)
  PROVE  /\ store[q] \in ApprovalRequest
         /\ store[q].created_at \in Nat
         /\ store[q].decided_at \in Nat \cup {None}
         /\ store[q].status \in {"PENDING", "APPROVED", "REJECTED"}
         /\ store[q].environment_id \in Environment
<1>1. store[q] \in ApprovalRequest
  BY DEF ApprovalTypeOK, Stored
<1>. QED BY <1>1 DEF ApprovalRequest

(* The empty store of a new process.                                       *)
LEMMA InitInv == Init => IInv
BY DEF Init, ApprovalInit, IInv, ApprovalTypeOK, DecidedInTime, StoredIsIssued,
       Stored

(* A new request is pending, and was made now.                             *)
LEMMA CreateInv ==
  ASSUME IInv, NEW q \in Request, NEW env \in Environment, NEW role,
         Create(q, env, role)
  PROVE  IInv'
<1>. DEFINE new == [environment_id |-> env, status |-> "PENDING",
                    created_at |-> now, decided_at |-> None]
<1>1. /\ new \in ApprovalRequest
      /\ new.created_at = now /\ new.status = "PENDING" /\ new.decided_at = None
  BY DEF IInv, ApprovalTypeOK, ApprovalRequest
<1>2. /\ store' = [store EXCEPT ![q] = new]
      /\ issued' = issued \cup {q}
      /\ now' = now
  BY DEF Create
<1>. HIDE DEF new
<1>3. store \in [Request -> ApprovalRequest \cup {NoRequest}] /\ now \in Nat
  BY DEF IInv, ApprovalTypeOK
<1>4. ApprovalTypeOK'
  BY <1>1, <1>2, <1>3 DEF IInv, ApprovalTypeOK
<1>5. StoredIsIssued'
  BY <1>2, <1>3 DEF IInv, StoredIsIssued, Stored
<1>6. DecidedInTime'
  <2>. SUFFICES ASSUME NEW r \in Request, Stored(r)'
                PROVE  /\ store'[r].created_at <= now'
                       /\ store'[r].status = "PENDING" <=> store'[r].decided_at = None
                       /\ store'[r].decided_at # None =>
                            /\ store'[r].created_at <= store'[r].decided_at
                            /\ store'[r].decided_at <= now'
                            /\ store'[r].decided_at - store'[r].created_at <= TTL
    BY DEF DecidedInTime
  <2>1. CASE r = q
    <3>1. store'[r] = new
      BY <1>2, <1>3, <2>1
    <3>. QED BY <1>1, <1>2, <1>3, <3>1
  <2>2. CASE r # q
    <3>1. store'[r] = store[r]
      BY <1>2, <1>3, <2>2
    <3>2. Stored(r)
      BY <3>1 DEF Stored
    <3>. QED BY <1>2, <3>1, <3>2 DEF IInv, DecidedInTime
  <2>. QED BY <2>1, <2>2
<1>. QED BY <1>4, <1>5, <1>6 DEF IInv

(* What a decision makes of a request.                                     *)
LEMMA DecidedFields ==
  ASSUME ApprovalTypeOK, NEW q \in Request, Stored(q), NEW decision \in DOMAIN Verdict
  PROVE  LET req == DecidedAs(store[q], Verdict[decision], now)
         IN  /\ req \in ApprovalRequest
             /\ req.status \in {"APPROVED", "REJECTED"}
             /\ req.status = "APPROVED" <=> decision = "approve"
             /\ req.created_at = store[q].created_at
             /\ req.decided_at = now
<1>1. /\ Verdict[decision] \in {"APPROVED", "REJECTED"}
      /\ Verdict[decision] = "APPROVED" <=> decision = "approve"
  BY DEF Verdict
<1>2. now \in Nat
  BY DEF ApprovalTypeOK
<1>. QED BY <1>1, <1>2, RequestFields DEF DecidedAs, ApprovalRequest

(* A decision is taken on a request that has not expired.                  *)
LEMMA DecideInv ==
  ASSUME IInv, NEW q \in Request, NEW decision \in DOMAIN Verdict, NEW role,
         Decide(q, decision, role)
  PROVE  IInv'
<1>. DEFINE new == DecidedAs(store[q], Verdict[decision], now)
<1>1. /\ new \in ApprovalRequest
      /\ new.status # "PENDING"
      /\ new.created_at = store[q].created_at
      /\ new.decided_at = now
  BY DecidedFields DEF IInv, Decide
<1>2. store' = [store EXCEPT ![q] = new] /\ issued' = issued /\ now' = now
  BY DEF Decide
<1>. HIDE DEF new
<1>3. store \in [Request -> ApprovalRequest \cup {NoRequest}] /\ now \in Nat
  BY DEF IInv, ApprovalTypeOK
<1>4. ApprovalTypeOK'
  BY <1>1, <1>2, <1>3 DEF IInv, ApprovalTypeOK
<1>5. StoredIsIssued'
  BY <1>2, <1>3 DEF IInv, StoredIsIssued, Stored, Decide
<1>6. DecidedInTime'
  <2>. SUFFICES ASSUME NEW r \in Request, Stored(r)'
                PROVE  /\ store'[r].created_at <= now'
                       /\ store'[r].status = "PENDING" <=> store'[r].decided_at = None
                       /\ store'[r].decided_at # None =>
                            /\ store'[r].created_at <= store'[r].decided_at
                            /\ store'[r].decided_at <= now'
                            /\ store'[r].decided_at - store'[r].created_at <= TTL
    BY DEF DecidedInTime
  <2>1. CASE r = q
    <3>1. store'[r] = new
      BY <1>2, <1>3, <2>1
    <3>2. store[q].created_at \in Nat /\ store[q].created_at <= now
      BY RequestFields DEF IInv, Decide, DecidedInTime
    <3>3. now - store[q].created_at <= TTL
      BY <1>3, <3>2, ApprovalAssumption DEF Decide, Decidable, IsExpired
    <3>4. now # None
      BY <1>3, ApprovalAssumption
    <3>. QED BY <1>1, <1>2, <1>3, <3>1, <3>2, <3>3, <3>4
  <2>2. CASE r # q
    <3>1. store'[r] = store[r]
      BY <1>2, <1>3, <2>2
    <3>2. Stored(r)
      BY <3>1 DEF Stored
    <3>. QED BY <1>2, <3>1, <3>2 DEF IInv, DecidedInTime
  <2>. QED BY <2>1, <2>2
<1>. QED BY <1>4, <1>5, <1>6 DEF IInv

(* Time passes for all requests alike.                                     *)
LEMMA TickInv ==
  ASSUME IInv, Tick
  PROVE  IInv'
<1>1. store' = store /\ issued' = issued /\ now' = now + 1 /\ now \in Nat
  BY DEF Tick, IInv, ApprovalTypeOK
<1>2. ApprovalTypeOK' /\ StoredIsIssued'
  BY <1>1 DEF IInv, ApprovalTypeOK, StoredIsIssued, Stored
<1>3. DecidedInTime'
  <2>. SUFFICES ASSUME NEW r \in Request, Stored(r)
                PROVE  /\ store[r].created_at <= now + 1
                       /\ store[r].status = "PENDING" <=> store[r].decided_at = None
                       /\ store[r].decided_at # None =>
                            /\ store[r].created_at <= store[r].decided_at
                            /\ store[r].decided_at <= now + 1
                            /\ store[r].decided_at - store[r].created_at <= TTL
    BY <1>1 DEF DecidedInTime, Stored
  <2>1. store[r].created_at \in Nat /\ store[r].decided_at \in Nat \cup {None}
    BY RequestFields DEF IInv
  <2>2. /\ store[r].created_at <= now
        /\ store[r].status = "PENDING" <=> store[r].decided_at = None
        /\ store[r].decided_at # None =>
             /\ store[r].created_at <= store[r].decided_at
             /\ store[r].decided_at <= now
             /\ store[r].decided_at - store[r].created_at <= TTL
    BY DEF IInv, DecidedInTime
  <2>. QED BY <1>1, <2>1, <2>2
<1>. QED BY <1>2, <1>3 DEF IInv

(* Every step keeps the invariant.                                         *)
LEMMA NextInv == IInv /\ ApprovalStep => IInv'
<1>. SUFFICES ASSUME IInv, ApprovalStep PROVE IInv'
  OBVIOUS
<1>1. ASSUME NEW q \in Request, NEW role \in Role, NEW env \in Environment,
             Create(q, env, role)
      PROVE  IInv'
  BY <1>1, CreateInv
<1>2. ASSUME NEW q \in Request, NEW role \in Role, NEW decision \in DOMAIN Verdict,
             Decide(q, decision, role)
      PROVE  IInv'
  BY <1>2, DecideInv
<1>3. CASE Tick
  BY <1>3, TickInv
<1>4. CASE ForgetRequests
  BY <1>4 DEF ForgetRequests, IInv, ApprovalTypeOK, DecidedInTime, StoredIsIssued,
              Stored
<1>5. CASE UNCHANGED approvalVars
  BY <1>5 DEF approvalVars, IInv, ApprovalTypeOK, DecidedInTime, StoredIsIssued,
              Stored
<1>. QED BY <1>1, <1>2, <1>3, <1>4, <1>5 DEF ApprovalStep, ApprovalNext

(* The requests, what was drawn and the clock keep their types.            *)
THEOREM ApprovalsTypeCorrect == Spec => []ApprovalTypeOK
<1>1. IInv => ApprovalTypeOK
  BY DEF IInv
<1>. QED BY <1>1, InitInv, NextInv, StepOfApprovals, PTL DEF Spec

(* No decision in the store was taken before its request or after the time *)
(* to live of it, in whatever order reviewers, the clock and restarts act. *)
THEOREM DecisionsAreInTime == Spec => []DecidedInTime
<1>1. IInv => DecidedInTime
  BY DEF IInv
<1>. QED BY <1>1, InitInv, NextInv, StepOfApprovals, PTL DEF Spec

-----------------------------------------------------------------------------
(* The five outcomes exclude each other and leave nothing out.             *)
LEMMA OutcomeCases ==
  ASSUME IInv, NEW q \in Request
  PROVE  /\ Outcome(q) = "none" <=> q \notin issued
         /\ Outcome(q) = "forgotten" <=> q \in issued /\ ~Stored(q)
         /\ Outcome(q) = "expired" <=> IsExpired(q)
         /\ Outcome(q) = "pending" <=> Decidable(q)
         /\ Outcome(q) = "approved" <=> Stored(q) /\ store[q].status = "APPROVED"
         /\ Outcome(q) = "rejected" <=> Stored(q) /\ store[q].status = "REJECTED"
<1>1. Stored(q) => store[q].status \in {"PENDING", "APPROVED", "REJECTED"}
  BY RequestFields DEF IInv
<1>2. Stored(q) => q \in issued
  BY DEF IInv, StoredIsIssued
<1>3. /\ IsExpired(q) => Stored(q) /\ store[q].status = "PENDING"
      /\ Decidable(q) <=> Pending(q) /\ ~IsExpired(q)
      /\ Pending(q) <=> Stored(q) /\ store[q].status = "PENDING"
  BY DEF IsExpired, Decidable, Pending
<1>4. CASE q \notin issued
  BY <1>1, <1>2, <1>3, <1>4 DEF Outcome
<1>5. CASE q \in issued /\ ~Stored(q)
  BY <1>1, <1>2, <1>3, <1>5 DEF Outcome
<1>6. CASE Stored(q) /\ IsExpired(q)
  BY <1>1, <1>2, <1>3, <1>6 DEF Outcome
<1>7. CASE Stored(q) /\ Decidable(q)
  BY <1>1, <1>2, <1>3, <1>7 DEF Outcome
<1>8. CASE Stored(q) /\ store[q].status = "APPROVED"
  BY <1>1, <1>2, <1>3, <1>8 DEF Outcome
<1>9. CASE Stored(q) /\ store[q].status = "REJECTED"
  BY <1>1, <1>2, <1>3, <1>9 DEF Outcome
<1>. QED BY <1>1, <1>2, <1>3, <1>4, <1>5, <1>6, <1>7, <1>8, <1>9

\* The outcomes of all requests, which the promise is about.
Outcomes == [q \in Request |-> Outcome(q)]

(* A request of which nothing was written, at one moment of the clock, has *)
(* the outcome it had.                                                     *)
LEMMA SameOutcome ==
  ASSUME NEW q \in Request, store'[q] = store[q], now' = now,
         q \in issued' <=> q \in issued
  PROVE  Outcome(q)' = Outcome(q)
BY DEF Outcome, Stored, IsExpired, Decidable, Pending

(* Creating a request opens it.                                            *)
LEMMA CreateOpens ==
  ASSUME IInv, IInv', NEW q \in Request, NEW env \in Environment, NEW role,
         Create(q, env, role)
  PROVE  Promise!Open(q)
<1>1. /\ store \in [Request -> ApprovalRequest \cup {NoRequest}]
      /\ now \in Nat /\ now' = now /\ TTL \in Nat
      /\ q \notin issued /\ issued' = issued \cup {q}
      /\ store'[q] = [environment_id |-> env, status |-> "PENDING",
                      created_at |-> now, decided_at |-> None]
      /\ \A r \in Request : r # q => store'[r] = store[r]
  BY ApprovalAssumption DEF Create, IInv, ApprovalTypeOK
<1>2. Outcome(q) = "none"
  BY <1>1, OutcomeCases
<1>3. store'[q].status = "PENDING" /\ store'[q].created_at = now
  BY <1>1
<1>4. store'[q] \in ApprovalRequest
  BY <1>1 DEF ApprovalRequest
<1>5. Decidable(q)'
  BY <1>1, <1>3, <1>4, NoRequestAssumption DEF Decidable, Pending, Stored, IsExpired
<1>6. (Outcome(q) = "pending" <=> Decidable(q))'
  BY OutcomeCases, PTL
<1>7. \A r \in Request : r # q => Outcome(r)' = Outcome(r)
  BY <1>1, SameOutcome
<1>. QED BY <1>2, <1>5, <1>6, <1>7 DEF Promise!Open

(* A decision settles a request that waits.                                *)
LEMMA DecideDecides ==
  ASSUME IInv, IInv', NEW q \in Request, NEW decision \in DOMAIN Verdict, NEW role,
         Decide(q, decision, role)
  PROVE  Promise!Decide(q)
<1>. DEFINE new == DecidedAs(store[q], Verdict[decision], now)
<1>1. new \in ApprovalRequest /\ new.status \in {"APPROVED", "REJECTED"}
  BY DecidedFields DEF IInv, Decide
<1>2. /\ store \in [Request -> ApprovalRequest \cup {NoRequest}]
      /\ store' = [store EXCEPT ![q] = new]
      /\ now' = now /\ issued' = issued
  BY DEF Decide, IInv, ApprovalTypeOK
<1>. HIDE DEF new
<1>3. store'[q] = new /\ \A r \in Request : r # q => store'[r] = store[r]
  BY <1>2
<1>4. Outcome(q) = "pending"
  BY OutcomeCases DEF Decide
<1>5. Stored(q)' /\ (store[q].status \in {"APPROVED", "REJECTED"})'
  BY <1>1, <1>3, NoRequestAssumption DEF Stored
<1>6. /\ (Outcome(q) = "approved" <=> Stored(q) /\ store[q].status = "APPROVED")'
      /\ (Outcome(q) = "rejected" <=> Stored(q) /\ store[q].status = "REJECTED")'
  BY OutcomeCases, PTL
<1>7. Outcome(q)' \in {"approved", "rejected"}
  BY <1>5, <1>6
<1>8. \A r \in Request : r # q => Outcome(r)' = Outcome(r)
  BY <1>2, <1>3, SameOutcome
<1>. QED BY <1>4, <1>7, <1>8 DEF Promise!Decide

(* When time passes some of the requests that wait expire, and no other    *)
(* request changes.                                                        *)
LEMMA TickExpires ==
  ASSUME IInv, IInv', Tick
  PROVE  \E Q \in SUBSET Request : Promise!Expire(Q)
<1>1. store' = store /\ issued' = issued /\ now' = now + 1 /\ now \in Nat
  BY DEF Tick, IInv, ApprovalTypeOK
<1>2. PICK Q \in SUBSET Request :
        \A q \in Request : q \in Q <=> Decidable(q) /\ IsExpired(q)'
  <2>. WITNESS {q \in Request : Decidable(q) /\ IsExpired(q)'} \in SUBSET Request
  <2>. QED BY Zenon
<1>3. ASSUME NEW q \in Request, q \in Q
      PROVE  Outcome(q) = "pending" /\ Outcome(q)' = "expired"
  <2>1. (Outcome(q) = "expired" <=> IsExpired(q))'
    BY OutcomeCases, PTL
  <2>. QED BY <1>2, <1>3, <2>1, OutcomeCases
<1>4. ASSUME NEW q \in Request, q \notin Q PROVE Outcome(q)' = Outcome(q)
  <2>1. IsExpired(q) => IsExpired(q)'
    <3>1. Stored(q) => store[q].created_at \in Nat
      BY RequestFields DEF IInv
    <3>. QED BY <1>1, <3>1, ApprovalAssumption DEF IsExpired, Pending, Stored
  <2>2. IsExpired(q)' <=> IsExpired(q)
    <3>1. IsExpired(q)' => Pending(q)
      BY <1>1 DEF IsExpired, Pending, Stored
    <3>. QED BY <1>2, <1>4, <2>1, <3>1 DEF Decidable
  <2>3. Stored(q)' <=> Stored(q)
    BY <1>1 DEF Stored
  <2>4. Decidable(q)' <=> Decidable(q)
    BY <1>1, <2>2 DEF Decidable, Pending, Stored
  <2>. QED BY <1>1, <2>2, <2>3, <2>4 DEF Outcome, Pending, Stored
<1>5. Promise!Expire(Q)
  BY <1>2, <1>3, <1>4 DEF Promise!Expire
<1>. QED BY <1>5

(* A process that ends forgets every request that was made.                *)
LEMMA ForgetForgets ==
  ASSUME IInv, IInv', ForgetRequests
  PROVE  Promise!Forget
<1>1. \A q \in Request : ~Stored(q)' /\ issued' = issued
  BY DEF ForgetRequests, Stored
<1>2. ASSUME NEW q \in Request
      PROVE  Outcome(q)' = IF Outcome(q) = "none" THEN "none" ELSE "forgotten"
  <2>1. /\ (Outcome(q) = "none" <=> q \notin issued)'
        /\ (Outcome(q) = "forgotten" <=> q \in issued /\ ~Stored(q))'
    BY OutcomeCases, PTL
  <2>. QED BY <1>1, <2>1, OutcomeCases
<1>. QED BY <1>2 DEF Promise!Forget

(* A step that leaves the approvals alone leaves every outcome.            *)
LEMMA StutterKeepsOutcomes ==
  ASSUME UNCHANGED approvalVars
  PROVE  Outcomes' = Outcomes
BY SameOutcome DEF approvalVars, Outcomes

(* Every step of the process is a step of the promise, or none of it.      *)
LEMMA StepKeepsPromise ==
  ASSUME IInv, IInv', ApprovalStep
  PROVE  Promise!Next \/ Outcomes' = Outcomes
<1>1. ASSUME NEW q \in Request, NEW role \in Role, NEW env \in Environment,
             Create(q, env, role)
      PROVE  Promise!Next
  BY <1>1, CreateOpens DEF Promise!Next
<1>2. ASSUME NEW q \in Request, NEW role \in Role, NEW decision \in DOMAIN Verdict,
             Decide(q, decision, role)
      PROVE  Promise!Next
  BY <1>2, DecideDecides DEF Promise!Next
<1>3. CASE Tick
  BY <1>3, TickExpires DEF Promise!Next
<1>4. CASE ForgetRequests
  BY <1>4, ForgetForgets DEF Promise!Next
<1>5. CASE UNCHANGED approvalVars
  BY <1>5, StutterKeepsOutcomes
<1>. QED BY <1>1, <1>2, <1>3, <1>4, <1>5 DEF ApprovalStep, ApprovalNext

(* The process implements the life of a request that the workflow states:  *)
(* settled at most once, by a decision or by time, and never waiting again.*)
THEOREM ApprovalsImplementPromise == Spec => ImplementsPromise
<1>1. Init => Promise!Init
  BY DEF Init, ApprovalInit, Promise!Init, Outcome
<1>2. IInv /\ IInv' /\ ApprovalStep => [Promise!Next]_Outcomes
  BY StepKeepsPromise
<1>. QED BY <1>1, <1>2, InitInv, NextInv, StepOfApprovals, PTL
     DEF Spec, ImplementsPromise, Promise!Spec, Outcomes

-----------------------------------------------------------------------------
(* The audit log.                                                          *)

Filters == Actor \cup {NoFilter}

\* What a list of a filter shows, page after page.
Listed(filter) == Matching(Reverse(entries), filter)

AuditTyped ==
  /\ entries \in Seq(AuditEntry)
  /\ recorded \in 0 .. MaxRecords
  /\ reader \in [page : Nat, filter : Filters, total : Nat, at : 0 .. recorded,
                 unseen : SUBSET (1 .. recorded), inOrder : BOOLEAN]

\* An id was drawn for one entry only.
Distinct ==
  /\ \A e \in Range(entries) : e.entry_id <= recorded
  /\ \A d, e \in Range(entries) : d.entry_id = e.entry_id => d = e

\* Filtering the log that is turned round is turning round what was filtered.
Mirrored == \A filter \in Filters : Listed(filter) = Reverse(Export(filter))

\* What was not seen is on the pages of the filter.
UnseenMatch ==
  \A e \in Range(entries) : e.entry_id \in reader.unseen => Matches(e, reader.filter)

\* A count taken when "at" entries had been recorded still counts those that
\* were: they are the last ones of the list.
Counts(list, total, at) ==
  /\ total <= Len(list)
  /\ \A j \in 1 .. Len(list) : list[j].entry_id <= at <=> j > Len(list) - total

\* Where a place of the list was when it was that count shorter.
Then(list, total, i) == i - (Len(list) - total)

\* An answer that was read when "at" entries had been recorded is right of
\* those of them that are still listed.
AnswerRight(list, page, total, shown, at) ==
  \A i \in 1 .. Len(list) : list[i].entry_id <= at =>
    /\ Counts(list, total, at)
    /\ Then(list, total, i) > (page - 1) * PageSize
         /\ Then(list, total, i) <= page * PageSize => list[i].entry_id \in shown

\* What was not seen is on none of the pages so far, which end where they
\* ended when the page that is shown was read.
AheadOf(list, page, total, at, unseen) ==
  \A i \in 1 .. Len(list) : list[i].entry_id \in unseen =>
    /\ list[i].entry_id <= at
    /\ Counts(list, total, at)
    /\ Then(list, total, i) > page * PageSize

UnseenAhead ==
  reader.inOrder =>
    AheadOf(Listed(reader.filter), reader.page, reader.total, reader.at, reader.unseen)

AnswerOK(c) ==
  /\ c \in CachedAnswer
  /\ c.at <= recorded /\ c.matched \subseteq 1 .. c.at
  /\ \A e \in Range(entries) : e.entry_id \in c.matched => Matches(e, c.filter)
  /\ AnswerRight(Listed(c.filter), c.page, c.total, c.shown, c.at)

\* Whatever the browser keeps was right when it was sent, and is of the
\* entries of that time.
CacheOK ==
  /\ cache \in Seq(CachedAnswer)
  /\ \A c \in Range(cache) : AnswerOK(c)

AuditInv == AuditTyped /\ Distinct /\ Mirrored /\ UnseenMatch /\ UnseenAhead /\ CacheOK

(* The fields of the reader.                                               *)
LEMMA ReaderFields ==
  ASSUME AuditTyped
  PROVE  /\ reader.page \in Nat /\ reader.filter \in Filters
         /\ reader.total \in Nat /\ reader.unseen \in SUBSET (1 .. recorded)
         /\ reader.at \in 0 .. recorded /\ reader.inOrder \in BOOLEAN
         /\ reader = [page |-> reader.page, filter |-> reader.filter,
                      total |-> reader.total, at |-> reader.at,
                      unseen |-> reader.unseen, inOrder |-> reader.inOrder]
BY DEF AuditTyped

(* The fields of an answer.                                                *)
LEMMA AnswerFields ==
  ASSUME NEW c, c \in CachedAnswer
  PROVE  /\ c.filter \in Filters /\ c.page \in Nat \ {0} /\ c.total \in Nat
         /\ c.at \in Nat
BY AuditAssumption DEF CachedAnswer, Filters

(* What matches is a list of entries that match.                           *)
LEMMA MatchingFacts ==
  ASSUME NEW log \in Seq(AuditEntry), NEW filter
  PROVE  /\ Matching(log, filter) \in Seq(AuditEntry)
         /\ Range(Matching(log, filter)) = {e \in Range(log) : Matches(e, filter)}
<1>. DEFINE kept == {e \in AuditEntry : Matches(e, filter)}
<1>1. Matching(log, filter) = Keep(log, kept)
  BY DEF Matching
<1>. HIDE DEF kept
<1>2. Keep(log, kept) \in Seq(AuditEntry) /\ Range(Keep(log, kept)) = Range(log) \cap kept
  BY KeepFacts
<1>3. Range(log) \subseteq AuditEntry
  BY DEF Range
<1>. QED BY <1>1, <1>2, <1>3 DEF kept

(* What is recorded is the last line of an export and the first of a list. *)
LEMMA MatchingRecorded ==
  ASSUME NEW log \in Seq(AuditEntry), NEW e \in AuditEntry, NEW filter
  PROVE  /\ Matching(Append(log, e), filter) =
              IF Matches(e, filter) THEN Append(Matching(log, filter), e)
              ELSE Matching(log, filter)
         /\ Matching(Reverse(Append(log, e)), filter) =
              IF Matches(e, filter) THEN <<e>> \o Matching(Reverse(log), filter)
              ELSE Matching(Reverse(log), filter)
<1>. DEFINE kept == {d \in AuditEntry : Matches(d, filter)}
<1>1. e \in kept <=> Matches(e, filter)
  OBVIOUS
<1>2. \A list : Matching(list, filter) = Keep(list, kept)
  BY DEF Matching
<1>. HIDE DEF kept
<1>3. Reverse(Append(log, e)) = <<e>> \o Reverse(log) /\ Reverse(log) \in Seq(AuditEntry)
  BY ReverseFacts
<1>4. Keep(Append(log, e), kept) =
        IF e \in kept THEN Append(Keep(log, kept), e) ELSE Keep(log, kept)
  BY KeepAppended
<1>5. Keep(<<e>> \o Reverse(log), kept) =
        IF e \in kept THEN <<e>> \o Keep(Reverse(log), kept) ELSE Keep(Reverse(log), kept)
  BY <1>3, KeepPrepended
<1>. QED BY <1>1, <1>2, <1>3, <1>4, <1>5

(* The pages of a list.                                                    *)
LEMMA ListedFacts ==
  ASSUME AuditTyped, Mirrored, NEW filter \in Filters
  PROVE  /\ Listed(filter) \in Seq(AuditEntry)
         /\ Len(Listed(filter)) = Count(filter)
         /\ Count(filter) \in Nat
         /\ Range(Listed(filter)) = {e \in Range(entries) : Matches(e, filter)}
         /\ Range(Export(filter)) = {e \in Range(entries) : Matches(e, filter)}
<1>1. entries \in Seq(AuditEntry)
  BY DEF AuditTyped
<1>2. /\ Export(filter) \in Seq(AuditEntry)
      /\ Range(Export(filter)) = {e \in Range(entries) : Matches(e, filter)}
  BY <1>1, MatchingFacts DEF Export
<1>3. /\ Reverse(entries) \in Seq(AuditEntry)
      /\ Range(Reverse(entries)) = Range(entries)
  <2>1. CASE entries = <<>>
    <3>1. Reverse(entries) = <<>>
      BY <2>1, EmptyFacts DEF Reverse
    <3>. QED BY <1>1, <2>1, <3>1
  <2>2. CASE entries # <<>>
    <3>1. PICK e \in AuditEntry : TRUE
      BY <1>1, <2>2
    <3>. QED BY <1>1, <3>1, ReverseFacts
  <2>. QED BY <2>1, <2>2
<1>4. /\ Listed(filter) \in Seq(AuditEntry)
      /\ Range(Listed(filter)) = {e \in Range(entries) : Matches(e, filter)}
  BY <1>3, MatchingFacts DEF Listed
<1>5. Listed(filter) = Reverse(Export(filter))
  BY DEF Mirrored
<1>6. PICK n \in Nat : n = Len(Export(filter))
  BY <1>2
<1>7. Len(Reverse(Export(filter))) = n
  BY <1>6 DEF Reverse
<1>8. Count(filter) = n
  BY <1>6 DEF Count, Export
<1>. QED BY <1>2, <1>4, <1>5, <1>6, <1>7, <1>8

(* The arithmetic of the pages.                                            *)
LEMMA PageBounds ==
  ASSUME NEW p \in Nat \ {0}, NEW size \in Nat \ {0}
  PROVE  /\ (p - 1) * size \in Nat /\ p * size \in Nat
         /\ p * size = (p - 1) * size + size
         /\ (p + 1) * size = p * size + size
<1>1. p * size = (p - 1) * size + size /\ (p + 1) * size = p * size + size
  OBVIOUS
<1>2. (p - 1) * size \in Nat /\ p * size \in Nat
  OBVIOUS
<1>. QED BY <1>1, <1>2

(* A greater number of pages has no fewer places.                          *)
LEMMA ProductGrows ==
  ASSUME NEW a \in Nat, NEW b \in Nat, NEW size \in Nat, a <= b
  PROVE  a * size <= b * size
<1>1. PICK d \in Nat : b = a + d
  <2>1. b - a \in Nat /\ b = a + (b - a)
    OBVIOUS
  <2>. QED BY <2>1
<1>2. b * size = a * size + d * size /\ d * size \in Nat /\ a * size \in Nat
  BY <1>1
<1>. QED BY <1>2

(* A page shows every place of the list between its bounds.                *)
LEMMA PageShows ==
  ASSUME NEW list \in Seq(AuditEntry), NEW p \in Nat \ {0},
         NEW i \in 1 .. Len(list), i > (p - 1) * PageSize, i <= p * PageSize
  PROVE  list[i].entry_id \in Ids(PageOf(list, p))
<1>1. PICK m, q : m = (p - 1) * PageSize /\ q = p * PageSize
  OBVIOUS
<1>2. PICK n \in Nat : n = Len(list)
  OBVIOUS
<1>3. m \in Nat /\ q \in Nat
  BY <1>1, PageBounds, AuditAssumption
<1>4. PICK last : last = IF q < n THEN q ELSE n
  OBVIOUS
<1>5. PICK page : page = SubSeq(list, m + 1, last)
  OBVIOUS
<1>6. m + 1 \in Int /\ last \in Int /\ i \in Int /\ m < i /\ i <= last /\ last <= n
  BY <1>1, <1>2, <1>3, <1>4
<1>7. \A j \in (m + 1) .. last : list[j] \in AuditEntry
  BY <1>2, <1>3, <1>6
<1>8. /\ page \in Seq(AuditEntry)
      /\ Len(page) = IF m + 1 <= last THEN last - (m + 1) + 1 ELSE 0
      /\ \A j \in 1 .. (last - (m + 1) + 1) : page[j] = list[(m + 1) + j - 1]
  BY <1>5, <1>6, <1>7, SubSeqProperties
<1>9. PICK j : j = i - m
  OBVIOUS
<1>10. j \in 1 .. (last - (m + 1) + 1) /\ (m + 1) + j - 1 = i /\ m + 1 <= last
  BY <1>3, <1>6, <1>9
<1>11. j \in DOMAIN page /\ page[j] = list[i]
  BY <1>8, <1>10
<1>12. PageOf(list, p) = page
  BY <1>1, <1>2, <1>4, <1>5 DEF PageOf
<1>. QED BY <1>11, <1>12 DEF Ids, ToSet

(* A page is a list of entries.                                            *)
LEMMA PageTyped ==
  ASSUME NEW list \in Seq(AuditEntry), NEW p \in Nat \ {0}
  PROVE  PageOf(list, p) \in Seq(AuditEntry)
<1>1. PICK m, q : m = (p - 1) * PageSize /\ q = p * PageSize
  OBVIOUS
<1>2. PICK n \in Nat : n = Len(list)
  OBVIOUS
<1>3. m \in Nat /\ q \in Nat
  BY <1>1, PageBounds, AuditAssumption
<1>4. PICK last : last = IF q < n THEN q ELSE n
  OBVIOUS
<1>5. m + 1 \in Int /\ last \in Int /\ last <= n
  BY <1>2, <1>3, <1>4
<1>6. \A j \in (m + 1) .. last : list[j] \in AuditEntry
  BY <1>2, <1>3, <1>5
<1>7. SubSeq(list, m + 1, last) \in Seq(AuditEntry)
  BY <1>5, <1>6, SubSeqProperties
<1>. QED BY <1>1, <1>2, <1>4, <1>7 DEF PageOf

(* Of an empty log nothing matches.                                        *)
LEMMA EmptyLog ==
  /\ Reverse(<<>>) = <<>>
  /\ \A filter : Matching(<<>>, filter) = <<>>
  /\ \A filter : Len(Matching(Reverse(<<>>), filter)) = 0
  /\ \A filter : Matching(Reverse(<<>>), filter) = Reverse(Matching(<<>>, filter))
<1>1. Reverse(<<>>) = <<>>
  BY EmptyFacts DEF Reverse
<1>2. ASSUME NEW filter PROVE Matching(<<>>, filter) = <<>>
  <2>1. /\ Matching(<<>>, filter) \in Seq(AuditEntry)
        /\ Range(Matching(<<>>, filter)) = {}
    BY EmptyFacts, MatchingFacts
  <2>. QED BY <2>1 DEF Range
<1>. QED BY <1>1, <1>2, EmptyFacts

(* A new entry moves every place of the list back by one.                  *)
LEMMA CountsGrow ==
  ASSUME NEW list \in Seq(AuditEntry), NEW e \in AuditEntry, NEW at \in Nat,
         at < e.entry_id, NEW total \in Nat, Counts(list, total, at)
  PROVE  LET list2 == <<e>> \o list IN
         /\ Counts(list2, total, at)
         /\ \A i \in 1 .. Len(list) : Then(list2, total, i + 1) = Then(list, total, i)
<1>1. PICK list2 : list2 = <<e>> \o list
  OBVIOUS
<1>2. PICK n \in Nat : n = Len(list)
  OBVIOUS
<1>3. /\ Len(list2) = n + 1 /\ list2[1] = e
      /\ \A i \in 1 .. n : list2[i + 1] = list[i]
  BY <1>1, <1>2, ConcatFacts
<1>4. total <= n /\ \A j \in 1 .. n : list[j].entry_id <= at <=> j > n - total
  BY <1>2 DEF Counts
<1>5. ASSUME NEW j \in 1 .. (n + 1)
      PROVE  list2[j].entry_id <= at <=> j > (n + 1) - total
  <2>1. CASE j = 1
    <3>1. e.entry_id \in Int
      BY AuditAssumption DEF AuditEntry
    <3>2. ~(e.entry_id <= at)
      BY <3>1
    <3>3. ~(1 > (n + 1) - total)
      BY <1>4
    <3>. QED BY <1>3, <2>1, <3>2, <3>3
  <2>2. CASE j # 1
    <3>1. PICK i : i = j - 1
      OBVIOUS
    <3>2. i \in 1 .. n /\ j = i + 1
      BY <1>2, <2>2, <3>1
    <3>3. list2[j] = list[i] /\ (list[i].entry_id <= at <=> i > n - total)
      BY <1>3, <1>4, <3>2
    <3>4. i > n - total <=> j > (n + 1) - total
      BY <1>2, <3>2
    <3>. QED BY <3>3, <3>4
  <2>. QED BY <2>1, <2>2
<1>6. Counts(list2, total, at)
  BY <1>2, <1>3, <1>4, <1>5 DEF Counts
<1>7. \A i \in 1 .. Len(list) : Then(list2, total, i + 1) = Then(list, total, i)
  BY <1>2, <1>3 DEF Then
<1>. QED BY <1>1, <1>6, <1>7

(* So what was right of an answer stays right of the entries of its time.  *)
LEMMA AnswerStaysRight ==
  ASSUME NEW list \in Seq(AuditEntry), NEW e \in AuditEntry, NEW at \in Nat,
         at < e.entry_id, NEW total \in Nat, NEW page, NEW shown,
         AnswerRight(list, page, total, shown, at)
  PROVE  AnswerRight(<<e>> \o list, page, total, shown, at)
<1>1. PICK list2 : list2 = <<e>> \o list
  OBVIOUS
<1>2. PICK n \in Nat : n = Len(list)
  OBVIOUS
<1>3. /\ Len(list2) = n + 1 /\ list2[1] = e
      /\ \A i \in 1 .. n : list2[i + 1] = list[i]
  BY <1>1, <1>2, ConcatFacts
<1>4. e.entry_id \in Int /\ ~(e.entry_id <= at)
  BY AuditAssumption DEF AuditEntry
<1>5. ASSUME NEW i \in 1 .. Len(list2), list2[i].entry_id <= at
      PROVE  /\ Counts(list2, total, at)
             /\ Then(list2, total, i) > (page - 1) * PageSize
                  /\ Then(list2, total, i) <= page * PageSize => list2[i].entry_id \in shown
  <2>1. PICK j : j = i - 1
    OBVIOUS
  <2>2. j \in 1 .. n /\ i = j + 1
    BY <1>2, <1>3, <1>4, <1>5, <2>1
  <2>3. list2[i] = list[j]
    BY <1>3, <2>2
  <2>4. /\ Counts(list, total, at)
        /\ Then(list, total, j) > (page - 1) * PageSize
             /\ Then(list, total, j) <= page * PageSize => list[j].entry_id \in shown
    BY <1>2, <1>5, <2>2, <2>3 DEF AnswerRight
  <2>5. Counts(list2, total, at) /\ Then(list2, total, i) = Then(list, total, j)
    BY <1>1, <1>2, <2>2, <2>4, CountsGrow
  <2>. QED BY <2>3, <2>4, <2>5
<1>6. AnswerRight(list2, page, total, shown, at)
  BY <1>5 DEF AnswerRight
<1>. QED BY <1>1, <1>6

(* And what is ahead of a reader stays ahead.                              *)
LEMMA AheadStays ==
  ASSUME NEW list \in Seq(AuditEntry), NEW e \in AuditEntry, NEW at \in Nat,
         at < e.entry_id, NEW total \in Nat, NEW page, NEW unseen,
         e.entry_id \notin unseen, AheadOf(list, page, total, at, unseen)
  PROVE  AheadOf(<<e>> \o list, page, total, at, unseen)
<1>1. PICK list2 : list2 = <<e>> \o list
  OBVIOUS
<1>2. PICK n \in Nat : n = Len(list)
  OBVIOUS
<1>3. /\ Len(list2) = n + 1 /\ list2[1] = e
      /\ \A i \in 1 .. n : list2[i + 1] = list[i]
  BY <1>1, <1>2, ConcatFacts
<1>5. ASSUME NEW i \in 1 .. Len(list2), list2[i].entry_id \in unseen
      PROVE  /\ list2[i].entry_id <= at
             /\ Counts(list2, total, at)
             /\ Then(list2, total, i) > page * PageSize
  <2>1. PICK j : j = i - 1
    OBVIOUS
  <2>2. j \in 1 .. n /\ i = j + 1
    BY <1>2, <1>3, <1>5, <2>1
  <2>3. list2[i] = list[j]
    BY <1>3, <2>2
  <2>4. /\ list[j].entry_id <= at /\ Counts(list, total, at)
        /\ Then(list, total, j) > page * PageSize
    BY <1>2, <1>5, <2>2, <2>3 DEF AheadOf
  <2>5. Counts(list2, total, at) /\ Then(list2, total, i) = Then(list, total, j)
    BY <1>1, <1>2, <2>2, <2>4, CountsGrow
  <2>. QED BY <2>3, <2>4, <2>5
<1>6. AheadOf(list2, page, total, at, unseen)
  BY <1>5 DEF AheadOf
<1>. QED BY <1>1, <1>6

(* Of two counts the later one counts no less.                             *)
LEMMA LaterCountsMore ==
  ASSUME NEW list \in Seq(AuditEntry), NEW at \in Nat, NEW later \in Nat, at <= later,
         NEW total \in Nat, NEW total2 \in Nat,
         Counts(list, total, at), Counts(list, total2, later)
  PROVE  total <= total2
<1>1. PICK n \in Nat : n = Len(list)
  OBVIOUS
<1>2. /\ total <= n /\ \A j \in 1 .. n : list[j].entry_id <= at <=> j > n - total
      /\ total2 <= n /\ \A j \in 1 .. n : list[j].entry_id <= later <=> j > n - total2
  BY <1>1 DEF Counts
<1>3. ASSUME total > total2 PROVE FALSE
  <2>1. PICK j : j = n - total + 1
    OBVIOUS
  <2>2. j \in 1 .. n /\ j > n - total /\ ~(j > n - total2)
    BY <1>2, <1>3, <2>1
  <2>3. list[j] \in AuditEntry
    BY <1>1, <2>2
  <2>4. list[j].entry_id \in Int
    BY <2>3, AuditAssumption DEF AuditEntry
  <2>. QED BY <1>2, <2>2, <2>4
<1>. QED BY <1>3

(* An answer of the server is right.                                       *)
LEMMA FreshIsOK ==
  ASSUME AuditTyped, Distinct, Mirrored, NEW filter \in Filters, NEW page \in Nat \ {0}
  PROVE  /\ AnswerOK(Fresh(filter, page))
         /\ Fresh(filter, page).filter = filter /\ Fresh(filter, page).page = page
<1>1. PICK list, n : list = Listed(filter) /\ n = Len(list)
  OBVIOUS
<1>2. /\ list \in Seq(AuditEntry) /\ n \in Nat /\ Count(filter) = n
      /\ Range(list) = {e \in Range(entries) : Matches(e, filter)}
      /\ Range(Export(filter)) = {e \in Range(entries) : Matches(e, filter)}
  BY <1>1, ListedFacts
<1>3. PICK shown, matched : shown = Shown(filter, page) /\ matched = Ids(Export(filter))
  OBVIOUS
<1>4. PICK c : c = Fresh(filter, page)
  OBVIOUS
<1>5. c = [filter |-> filter, page |-> page, total |-> n, shown |-> shown,
           matched |-> matched, at |-> recorded]
  BY <1>2, <1>3, <1>4 DEF Fresh
<1>6. /\ c.filter = filter /\ c.page = page /\ c.total = n /\ c.shown = shown
      /\ c.matched = matched /\ c.at = recorded
  BY <1>5
<1>7. recorded \in Nat /\ recorded \in 0 .. recorded
  BY AuditAssumption DEF AuditTyped
<1>8. \A e \in Range(entries) : e.entry_id \in 1 .. recorded
  <2>1. Range(entries) \subseteq AuditEntry
    BY DEF AuditTyped, Range
  <2>. QED BY <1>7, <2>1 DEF Distinct, AuditEntry
<1>9. matched = {e.entry_id : e \in Range(Export(filter))}
  BY <1>3 DEF Ids, ToSet, Range
<1>10. matched \in SUBSET (1 .. recorded)
  BY <1>2, <1>8, <1>9
<1>11. shown = Ids(PageOf(list, page))
  BY <1>1, <1>3 DEF Shown, ListEntries, Listed
<1>12. shown \in SUBSET (1 .. MaxRecords)
  <2>1. PageOf(list, page) \in Seq(AuditEntry)
    BY <1>2, PageTyped
  <2>2. PICK on : on = PageOf(list, page)
    OBVIOUS
  <2>3. \A i \in DOMAIN on : on[i].entry_id \in 1 .. MaxRecords
    <3>1. \A i \in DOMAIN on : on[i] \in AuditEntry
      BY <2>1, <2>2
    <3>. QED BY <3>1 DEF AuditEntry
  <2>4. shown = {e.entry_id : e \in {on[i] : i \in DOMAIN on}}
    BY <1>11, <2>2 DEF Ids, ToSet
  <2>5. ASSUME NEW x \in shown PROVE x \in 1 .. MaxRecords
    <3>1. PICK i \in DOMAIN on : x = on[i].entry_id
      BY <2>4
    <3>. QED BY <2>3, <3>1
  <2>. QED BY <2>5
<1>13. c \in CachedAnswer
  <2>1. recorded \in 0 .. MaxRecords /\ matched \in SUBSET (1 .. MaxRecords)
    BY <1>10, AuditAssumption DEF AuditTyped
  <2>. QED BY <1>2, <1>5, <1>12, <2>1 DEF CachedAnswer, Filters
<1>14. \A e \in Range(entries) : e.entry_id \in matched => Matches(e, filter)
  BY <1>2, <1>9 DEF Distinct
<1>15. AnswerRight(list, page, n, shown, recorded)
  <2>1. \A j \in 1 .. n : list[j].entry_id <= recorded
    BY <1>1, <1>2, <1>7, <1>8 DEF Range
  <2>2. Counts(list, n, recorded)
    <3>1. n <= n /\ n - n = 0 /\ \A j \in 1 .. n : j > 0
      BY <1>2
    <3>. QED BY <1>1, <2>1, <3>1 DEF Counts
  <2>3. ASSUME NEW i \in 1 .. n, i > (page - 1) * PageSize, i <= page * PageSize
        PROVE  list[i].entry_id \in shown
    BY <1>1, <1>2, <1>11, <2>3, PageShows
  <2>4. \A i \in 1 .. n : Then(list, n, i) = i
    BY <1>1, <1>2 DEF Then
  <2>. QED BY <1>1, <2>2, <2>3, <2>4 DEF AnswerRight
<1>17. AnswerRight(Listed(c.filter), c.page, c.total, c.shown, c.at)
  BY <1>1, <1>6, <1>15
<1>18. c.at <= recorded /\ c.matched \subseteq 1 .. c.at
  BY <1>6, <1>7, <1>10
<1>. QED BY <1>4, <1>6, <1>13, <1>14, <1>17, <1>18 DEF AnswerOK

(* Whatever the browser shows is right of its filter and page.             *)
LEMMA AnswersAreOK ==
  ASSUME AuditInv, NEW filter \in Filters, NEW page \in Nat \ {0},
         NEW c \in Answers(filter, page)
  PROVE  AnswerOK(c) /\ c.filter = filter /\ c.page = page
<1>1. CASE c \in ToSet(cache) /\ c.filter = filter /\ c.page = page
  BY <1>1 DEF AuditInv, CacheOK, ToSet, Range
<1>2. CASE c = Fresh(filter, page)
  BY <1>2, FreshIsOK DEF AuditInv
<1>. QED BY <1>1, <1>2 DEF Answers

(* What the browser keeps stays right when only the reader moves.          *)
LEMMA CacheWithInv ==
  ASSUME AuditInv, UNCHANGED <<entries, recorded>>, NEW c, AnswerOK(c), CacheWith(c)
  PROVE  CacheOK'
<1>1. \A d : AnswerOK(d) => AnswerOK(d)'
  BY DEF AnswerOK, Listed
<1>2. CASE cache' = cache
  BY <1>1, <1>2 DEF AuditInv, CacheOK
<1>3. CASE cache' = Append(cache, c)
  <2>1. cache \in Seq(CachedAnswer) /\ c \in CachedAnswer
    BY DEF AuditInv, CacheOK, AnswerOK
  <2>2. cache' \in Seq(CachedAnswer) /\ Range(cache') = Range(cache) \cup {c}
    BY <1>3, <2>1, AppendFacts
  <2>. QED BY <1>1, <2>2 DEF AuditInv, CacheOK
<1>. QED BY <1>2, <1>3 DEF CacheWith

(* The log of a new process and a browser that shows no page of it.        *)
LEMMA AuditInitInv == AuditInit => AuditInv
<1>. SUFFICES ASSUME AuditInit PROVE AuditInv
  OBVIOUS
<1>1. AuditTyped
  BY AuditAssumption, EmptyFacts DEF AuditInit, AuditTyped, Closed, Filters
<1>2. Range(entries) = {}
  BY EmptyFacts DEF AuditInit
<1>3. Distinct /\ UnseenMatch
  BY <1>2 DEF Distinct, UnseenMatch
<1>4. Mirrored /\ UnseenAhead
  BY EmptyLog DEF AuditInit, Mirrored, UnseenAhead, AheadOf, Listed, Export
<1>5. CacheOK
  BY EmptyFacts DEF AuditInit, CacheOK
<1>. QED BY <1>1, <1>3, <1>4, <1>5 DEF AuditInv

(* An entry is recorded: every page of its filter moves back by one.       *)
LEMMA RecordInv ==
  ASSUME AuditInv, NEW actor \in Actor, Record(actor)
  PROVE  AuditInv'
<1>. DEFINE new == [entry_id |-> recorded + 1, actor_id |-> actor]
<1>1. /\ recorded < MaxRecords /\ recorded' = recorded + 1
      /\ reader' = reader /\ cache' = cache
      /\ entries' = Append(entries, new)
  BY DEF Record
<1>2. recorded \in 0 .. MaxRecords /\ MaxRecords \in Nat /\ entries \in Seq(AuditEntry)
  BY AuditAssumption DEF AuditInv, AuditTyped
<1>3. new \in AuditEntry /\ new.entry_id = recorded + 1
  <2>1. recorded + 1 \in 1 .. MaxRecords
    BY <1>1, <1>2
  <2>. QED BY <2>1 DEF AuditEntry
<1>. HIDE DEF new
<1>4. PICK unseen, page, total, filter, at :
        /\ unseen = reader.unseen /\ page = reader.page
        /\ total = reader.total /\ filter = reader.filter /\ at = reader.at
  OBVIOUS
<1>5. /\ unseen \in SUBSET (1 .. recorded) /\ page \in Nat /\ total \in Nat
      /\ filter \in Filters /\ at \in 0 .. recorded
  BY <1>4, ReaderFields DEF AuditInv
<1>6. recorded + 1 \notin unseen /\ unseen \in SUBSET (1 .. (recorded + 1))
      /\ at \in 0 .. (recorded + 1) /\ at \in Nat /\ at < recorded + 1
  BY <1>2, <1>5
<1>7. entries' \in Seq(AuditEntry) /\ Range(entries') = Range(entries) \cup {new}
  BY <1>1, <1>2, <1>3, AppendFacts
<1>8. AuditTyped'
  <2>1. recorded' \in 0 .. MaxRecords
    BY <1>1, <1>2
  <2>2. reader' \in [page : Nat, filter : Filters, total : Nat, at : 0 .. recorded',
                     unseen : SUBSET (1 .. recorded'), inOrder : BOOLEAN]
    <3>1. /\ reader.inOrder \in BOOLEAN
          /\ reader = [page |-> page, filter |-> filter, total |-> total, at |-> at,
                       unseen |-> unseen, inOrder |-> reader.inOrder]
      BY <1>4, ReaderFields DEF AuditInv
    <3>. QED BY <1>1, <1>5, <1>6, <3>1
  <2>. QED BY <1>7, <2>1, <2>2 DEF AuditTyped
<1>9. \A e \in Range(entries) : e.entry_id <= recorded /\ e.entry_id \in Int
  <2>1. Range(entries) \subseteq AuditEntry
    BY <1>2 DEF Range
  <2>. QED BY <1>2, <2>1 DEF AuditInv, Distinct, AuditEntry
<1>10. Distinct'
  <2>1. \A e \in Range(entries') : e.entry_id <= recorded'
    BY <1>1, <1>2, <1>3, <1>7, <1>9
  <2>2. ASSUME NEW d \in Range(entries'), NEW e \in Range(entries'),
               d.entry_id = e.entry_id
        PROVE  d = e
    BY <1>2, <1>3, <1>7, <1>9, <2>2 DEF AuditInv, Distinct
  <2>. QED BY <2>1, <2>2 DEF Distinct
<1>11. UnseenMatch'
  BY <1>1, <1>3, <1>4, <1>6, <1>7 DEF AuditInv, UnseenMatch
<1>12. ASSUME NEW f \in Filters
       PROVE  /\ Export(f)' = IF Matches(new, f) THEN Append(Export(f), new) ELSE Export(f)
              /\ Listed(f)' = IF Matches(new, f) THEN <<new>> \o Listed(f) ELSE Listed(f)
  BY <1>1, <1>2, <1>3, MatchingRecorded DEF Export, Listed
<1>13. ASSUME NEW f \in Filters PROVE Listed(f)' = Reverse(Export(f)')
  <2>1. Listed(f) = Reverse(Export(f))
    BY DEF AuditInv, Mirrored
  <2>2. Export(f) \in Seq(AuditEntry)
    BY <1>2, MatchingFacts DEF Export
  <2>3. Reverse(Append(Export(f), new)) = <<new>> \o Reverse(Export(f))
    BY <1>3, <2>2, ReverseFacts
  <2>. QED BY <1>12, <2>1, <2>3
<1>14. Mirrored'
  BY <1>13 DEF Mirrored, Filters
<1>15. ASSUME reader.inOrder
       PROVE  AheadOf(Listed(filter)', page, total, at, unseen)
  <2>1. PICK list, list2 : list = Listed(filter) /\ list2 = Listed(filter)'
    OBVIOUS
  <2>2. list \in Seq(AuditEntry) /\ AheadOf(list, page, total, at, unseen)
    BY <1>4, <1>5, <1>15, <2>1, ListedFacts DEF AuditInv, UnseenAhead
  <2>3. AheadOf(<<new>> \o list, page, total, at, unseen)
    BY <1>3, <1>5, <1>6, <2>2, AheadStays
  <2>. QED BY <1>5, <1>12, <2>1, <2>2, <2>3
<1>16. UnseenAhead'
  <2>1. Listed(reader.filter)' = Listed(filter)'
    BY <1>1, <1>4 DEF Listed
  <2>. QED BY <1>1, <1>4, <1>15, <2>1 DEF UnseenAhead
<1>17. ASSUME NEW c \in Range(cache) PROVE AnswerOK(c)'
  <2>1. AnswerOK(c)
    BY DEF AuditInv, CacheOK
  <2>2. /\ c.filter \in Filters /\ c.total \in Nat /\ c.at \in Nat
        /\ c \in CachedAnswer /\ c.at <= recorded /\ c.matched \subseteq 1 .. c.at
    BY <2>1, AnswerFields DEF AnswerOK
  <2>3. c.at <= recorded' /\ recorded + 1 \notin c.matched /\ c.at < recorded + 1
    BY <1>1, <1>2, <2>2
  <2>4. \A e \in Range(entries') : e.entry_id \in c.matched => Matches(e, c.filter)
    BY <1>3, <1>7, <2>1, <2>3 DEF AnswerOK
  <2>5. PICK list, list2, pg, shown :
          /\ list = Listed(c.filter) /\ list2 = Listed(c.filter)'
          /\ pg = c.page /\ shown = c.shown
    OBVIOUS
  <2>6. list \in Seq(AuditEntry) /\ AnswerRight(list, pg, c.total, shown, c.at)
    BY <2>1, <2>2, <2>5, ListedFacts DEF AuditInv, AnswerOK
  <2>7. AnswerRight(<<new>> \o list, pg, c.total, shown, c.at)
    BY <1>3, <2>2, <2>3, <2>6, AnswerStaysRight
  <2>8. AnswerRight(list2, pg, c.total, shown, c.at)
    BY <1>12, <2>2, <2>5, <2>6, <2>7
  <2>. QED BY <2>2, <2>3, <2>4, <2>5, <2>8 DEF AnswerOK
<1>18. CacheOK'
  BY <1>1, <1>17 DEF AuditInv, CacheOK
<1>. QED BY <1>8, <1>10, <1>11, <1>14, <1>16, <1>18 DEF AuditInv

\* Only the browser moves.
LogUnchanged == UNCHANGED <<entries, recorded>>

(* What a reader who turns to a page has not seen is behind it.            *)
LEMMA ReaderInv ==
  ASSUME AuditInv, LogUnchanged, CacheOK',
         NEW page \in Nat, NEW filter \in Filters, NEW total \in Nat,
         NEW at \in 0 .. recorded, NEW unseen \in SUBSET (1 .. recorded),
         NEW inOrder \in BOOLEAN,
         reader' = [page |-> page, filter |-> filter, total |-> total, at |-> at,
                    unseen |-> unseen, inOrder |-> inOrder],
         \A e \in Range(entries) : e.entry_id \in unseen => Matches(e, filter),
         inOrder => AheadOf(Listed(filter), page, total, at, unseen)
  PROVE  AuditInv'
<1>1. entries' = entries /\ recorded' = recorded
  BY DEF LogUnchanged
<1>2. /\ reader'.page = page /\ reader'.filter = filter
      /\ reader'.total = total /\ reader'.unseen = unseen
      /\ reader'.at = at /\ reader'.inOrder = inOrder
  OBVIOUS
<1>3. AuditTyped'
  BY <1>1 DEF AuditInv, AuditTyped
<1>4. Distinct' /\ Mirrored'
  BY <1>1 DEF AuditInv, Distinct, Mirrored, Listed, Export
<1>5. UnseenMatch'
  BY <1>1, <1>2 DEF UnseenMatch
<1>6. Listed(reader.filter)' = Listed(filter)
  BY <1>1, <1>2 DEF Listed
<1>7. UnseenAhead'
  BY <1>2, <1>6 DEF UnseenAhead
<1>. QED BY <1>3, <1>4, <1>5, <1>7 DEF AuditInv

(* A walk begins: what matched and is not on page 1 comes after it.        *)
LEMMA OpenLogInv ==
  ASSUME AuditInv, NEW filter \in Filters, OpenLog(filter)
  PROVE  AuditInv'
<1>1. PICK c \in Answers(filter, 1) :
        /\ reader' = [page |-> 1, filter |-> filter, total |-> c.total, at |-> c.at,
                      unseen |-> c.matched \ c.shown, inOrder |-> TRUE]
        /\ CacheWith(c)
        /\ UNCHANGED <<entries, recorded>>
  BY DEF OpenLog
<1>2. AnswerOK(c) /\ c.filter = filter /\ c.page = 1
  BY AnswersAreOK
<1>3. LogUnchanged /\ CacheOK'
  BY <1>1, <1>2, CacheWithInv DEF LogUnchanged
<1>4. PICK total, at, unseen :
        total = c.total /\ at = c.at /\ unseen = c.matched \ c.shown
  OBVIOUS
<1>5. recorded \in Nat
  BY AuditAssumption DEF AuditInv, AuditTyped
<1>6. /\ total \in Nat /\ at \in Nat /\ at <= recorded
      /\ c.matched \subseteq 1 .. at
      /\ \A e \in Range(entries) : e.entry_id \in unseen => Matches(e, filter)
  BY <1>2, <1>4, AnswerFields DEF AnswerOK
<1>7. at \in 0 .. recorded /\ unseen \in SUBSET (1 .. recorded)
  BY <1>4, <1>5, <1>6
<1>8. PICK list : list = Listed(filter)
  OBVIOUS
<1>9. list \in Seq(AuditEntry)
  BY <1>8, ListedFacts DEF AuditInv
<1>10. AnswerRight(list, 1, total, c.shown, at)
  BY <1>2, <1>4, <1>8 DEF AnswerOK
<1>11. PICK size \in Nat \ {0} : size = PageSize
  BY AuditAssumption
<1>12. ASSUME NEW i \in 1 .. Len(list), list[i].entry_id \in unseen
       PROVE  /\ list[i].entry_id <= at
              /\ Counts(list, total, at)
              /\ Then(list, total, i) > 1 * PageSize
  <2>1. list[i].entry_id <= at /\ list[i].entry_id \notin c.shown
    BY <1>4, <1>6, <1>12
  <2>2. /\ Counts(list, total, at)
        /\ Then(list, total, i) > (1 - 1) * PageSize
             /\ Then(list, total, i) <= 1 * PageSize => list[i].entry_id \in c.shown
    BY <1>10, <2>1 DEF AnswerRight
  <2>3. PICK n \in Nat : n = Len(list)
    BY <1>9
  <2>4. i > n - total /\ Then(list, total, i) = i - (n - total)
    BY <2>1, <2>2, <2>3 DEF Counts, Then
  <2>5. Then(list, total, i) \in Int /\ Then(list, total, i) > 0
    BY <1>6, <2>3, <2>4
  <2>6. (1 - 1) * PageSize = 0 /\ 1 * PageSize = size
    BY <1>11
  <2>. QED BY <2>1, <2>2, <2>5, <2>6
<1>13. AheadOf(list, 1, total, at, unseen)
  BY <1>12 DEF AheadOf
<1>14. reader' = [page |-> 1, filter |-> filter, total |-> total, at |-> at,
                  unseen |-> unseen, inOrder |-> TRUE]
  BY <1>1, <1>4
<1>15. 1 \in Nat /\ TRUE \in BOOLEAN
  OBVIOUS
<1>. QED BY <1>3, <1>6, <1>7, <1>8, <1>13, <1>14, <1>15, ReaderInv

(* What was not on the pages so far, and not on this one, comes after it.  *)
LEMMA AheadOfNext ==
  ASSUME NEW list \in Seq(AuditEntry), NEW old \in Nat, NEW page \in Nat \ {0},
         page <= old + 1, NEW total \in Nat, NEW total2 \in Nat,
         NEW at \in Nat, NEW later \in Nat, at <= later, NEW unseen, NEW shown,
         AheadOf(list, old, total, at, unseen),
         AnswerRight(list, page, total2, shown, later)
  PROVE  AheadOf(list, page, total2, later, unseen \ shown)
<1>1. PICK n \in Nat : n = Len(list)
  OBVIOUS
<1>. SUFFICES ASSUME NEW i \in 1 .. n, list[i].entry_id \in unseen \ shown
              PROVE  /\ list[i].entry_id <= later
                     /\ Counts(list, total2, later)
                     /\ Then(list, total2, i) > page * PageSize
  BY <1>1 DEF AheadOf
<1>2. /\ list[i].entry_id <= at /\ Counts(list, total, at)
      /\ Then(list, total, i) > old * PageSize
  BY <1>1 DEF AheadOf
<1>3. list[i] \in AuditEntry
  BY <1>1
<1>4. list[i].entry_id \in Int
  BY <1>3, AuditAssumption DEF AuditEntry
<1>5. list[i].entry_id <= later
  BY <1>2, <1>4
<1>6. /\ Counts(list, total2, later)
      /\ Then(list, total2, i) > (page - 1) * PageSize
           /\ Then(list, total2, i) <= page * PageSize => list[i].entry_id \in shown
  BY <1>1, <1>5 DEF AnswerRight
<1>7. total <= total2
  BY <1>2, <1>6, LaterCountsMore
<1>8. /\ Then(list, total, i) = i - (n - total)
      /\ Then(list, total2, i) = i - (n - total2)
  BY <1>1 DEF Then
<1>9. (page - 1) * PageSize \in Nat /\ old * PageSize \in Nat /\ page * PageSize \in Nat
  BY PageBounds, AuditAssumption
<1>10. (page - 1) * PageSize <= old * PageSize
  <2>1. page - 1 \in Nat /\ page - 1 <= old /\ PageSize \in Nat
    BY AuditAssumption
  <2>. QED BY <2>1, ProductGrows
<1>11. Then(list, total2, i) > (page - 1) * PageSize
  BY <1>2, <1>7, <1>8, <1>9, <1>10
<1>12. ~(Then(list, total2, i) <= page * PageSize)
  BY <1>6, <1>11
<1>. QED BY <1>5, <1>6, <1>8, <1>9, <1>12

(* A page is turned, to the next one or to one before.                     *)
LEMMA TurnInv ==
  ASSUME AuditInv, NEW page \in Nat \ {0}, page <= reader.page + 1, Turn(page)
  PROVE  AuditInv'
<1>1. PICK unseen, old, total, filter, at, inOrder :
        /\ unseen = reader.unseen /\ old = reader.page
        /\ total = reader.total /\ filter = reader.filter
        /\ at = reader.at /\ inOrder = reader.inOrder
  OBVIOUS
<1>2. /\ unseen \in SUBSET (1 .. recorded) /\ old \in Nat /\ total \in Nat
      /\ filter \in Filters /\ at \in 0 .. recorded /\ inOrder \in BOOLEAN
      /\ reader = [page |-> old, filter |-> filter, total |-> total, at |-> at,
                   unseen |-> unseen, inOrder |-> inOrder]
  BY <1>1, ReaderFields DEF AuditInv
<1>3. PICK c \in Answers(filter, page) :
        /\ reader' = [reader EXCEPT !.page = page, !.total = c.total, !.at = c.at,
                                    !.unseen = @ \ c.shown,
                                    !.inOrder = @ /\ reader.at <= c.at]
        /\ CacheWith(c)
        /\ UNCHANGED <<entries, recorded>>
  BY <1>1 DEF Turn
<1>4. AnswerOK(c) /\ c.filter = filter /\ c.page = page
  BY <1>2, AnswersAreOK
<1>5. LogUnchanged /\ CacheOK'
  BY <1>3, <1>4, CacheWithInv DEF LogUnchanged
<1>6. PICK total2, later, rest, order, shown :
        /\ total2 = c.total /\ later = c.at /\ shown = c.shown
        /\ rest = unseen \ shown /\ order = (inOrder /\ at <= later)
  OBVIOUS
<1>7. recorded \in Nat
  BY AuditAssumption DEF AuditInv, AuditTyped
<1>8. total2 \in Nat /\ later \in Nat /\ later <= recorded
  BY <1>4, <1>6, AnswerFields DEF AnswerOK
<1>9. /\ later \in 0 .. recorded /\ at \in Nat
      /\ rest \in SUBSET (1 .. recorded) /\ order \in BOOLEAN
  BY <1>2, <1>6, <1>7, <1>8
<1>10. reader' = [page |-> page, filter |-> filter, total |-> total2, at |-> later,
                  unseen |-> rest, inOrder |-> order]
  BY <1>1, <1>2, <1>3, <1>6
<1>11. \A e \in Range(entries) : e.entry_id \in rest => Matches(e, filter)
  BY <1>1, <1>6 DEF AuditInv, UnseenMatch
<1>12. PICK list : list = Listed(filter)
  OBVIOUS
<1>13. list \in Seq(AuditEntry) /\ AnswerRight(list, page, total2, shown, later)
  BY <1>2, <1>4, <1>6, <1>12, ListedFacts DEF AuditInv, AnswerOK
<1>14. ASSUME order PROVE AheadOf(list, page, total2, later, rest)
  <2>1. at <= later /\ inOrder
    BY <1>6, <1>14
  <2>2. AheadOf(list, old, total, at, unseen)
    BY <1>1, <1>12, <2>1 DEF AuditInv, UnseenAhead
  <2>3. page <= old + 1
    BY <1>1
  <2>. QED BY <1>2, <1>6, <1>8, <1>9, <1>13, <2>1, <2>2, <2>3, AheadOfNext
<1>15. page \in Nat
  OBVIOUS
<1>. QED BY <1>2, <1>5, <1>8, <1>9, <1>10, <1>11, <1>12, <1>14, <1>15, ReaderInv

(* The log is closed.                                                      *)
LEMMA CloseLogInv ==
  ASSUME AuditInv, CloseLog
  PROVE  AuditInv'
<1>1. /\ reader' = [page |-> 0, filter |-> NoFilter, total |-> 0, at |-> 0,
                    unseen |-> {}, inOrder |-> TRUE]
      /\ LogUnchanged /\ cache' = cache
  BY DEF CloseLog, Closed, LogUnchanged
<1>2. recorded \in Nat
  BY AuditAssumption DEF AuditInv, AuditTyped
<1>3. /\ NoFilter \in Filters /\ 0 \in Nat /\ {} \in SUBSET (1 .. recorded)
      /\ TRUE \in BOOLEAN /\ 0 \in 0 .. recorded
  BY <1>2 DEF Filters
<1>4. AheadOf(Listed(NoFilter), 0, 0, 0, {})
  BY DEF AheadOf
<1>5. CacheOK'
  BY <1>1 DEF AuditInv, CacheOK, AnswerOK, LogUnchanged, Listed
<1>. QED BY <1>1, <1>3, <1>4, <1>5, ReaderInv

(* An answer is not kept any longer: the others stay right.                *)
LEMMA GoStaleInv ==
  ASSUME AuditInv, GoStale
  PROVE  AuditInv'
<1>1. /\ cache # <<>> /\ cache' = Tail(cache) /\ entries' = entries
      /\ recorded' = recorded /\ reader' = reader
  BY DEF GoStale
<1>2. cache \in Seq(CachedAnswer) /\ \A c \in Range(cache) : AnswerOK(c)
  BY DEF AuditInv, CacheOK
<1>3. Tail(cache) \in Seq(CachedAnswer) /\ Range(Tail(cache)) \subseteq Range(cache)
  BY <1>1, <1>2, TailFacts
<1>4. \A c : AnswerOK(c) => AnswerOK(c)'
  BY <1>1 DEF AnswerOK, Listed
<1>5. CacheOK'
  BY <1>1, <1>2, <1>3, <1>4 DEF CacheOK
<1>6. AuditTyped' /\ Distinct' /\ Mirrored' /\ UnseenMatch' /\ UnseenAhead'
  BY <1>1 DEF AuditInv, AuditTyped, Distinct, Mirrored, UnseenMatch, UnseenAhead,
              Listed, Export
<1>. QED BY <1>5, <1>6 DEF AuditInv

(* The process ends and takes the log with it: nothing is left to be seen. *)
LEMMA ForgetEntriesInv ==
  ASSUME AuditInv, ForgetEntries
  PROVE  AuditInv'
<1>1. entries' = <<>> /\ recorded' = recorded /\ reader' = reader /\ cache' = cache
  BY DEF ForgetEntries
<1>2. Range(entries') = {} /\ entries' \in Seq(AuditEntry)
  BY <1>1, EmptyFacts
<1>3. AuditTyped'
  BY <1>1, <1>2 DEF AuditInv, AuditTyped
<1>4. Distinct' /\ UnseenMatch'
  BY <1>2 DEF Distinct, UnseenMatch
<1>5. Mirrored'
  BY <1>1, EmptyLog DEF Mirrored, Listed, Export
<1>6. \A filter : Len(Listed(filter)') = 0
  BY <1>1, EmptyLog DEF Listed
<1>7. UnseenAhead'
  BY <1>6 DEF UnseenAhead, AheadOf
<1>8. \A c : AnswerOK(c) => AnswerOK(c)'
  BY <1>1, <1>2, <1>6 DEF AnswerOK, AnswerRight
<1>9. CacheOK'
  BY <1>1, <1>8 DEF AuditInv, CacheOK
<1>. QED BY <1>3, <1>4, <1>5, <1>7, <1>9 DEF AuditInv

\* A step of the process as the audit log sees it.
AuditStep == AuditNext \/ ForgetEntries \/ UNCHANGED auditVars

(* Every step keeps the invariant.                                         *)
LEMMA AuditNextInv == AuditInv /\ AuditStep => AuditInv'
<1>. SUFFICES ASSUME AuditInv, AuditStep PROVE AuditInv'
  OBVIOUS
<1>1. ASSUME NEW actor \in Actor, Record(actor) PROVE AuditInv'
  BY <1>1, RecordInv
<1>2. ASSUME NEW filter \in Actor \cup {NoFilter}, OpenLog(filter) PROVE AuditInv'
  BY <1>2, OpenLogInv DEF Filters
<1>3. reader.page \in Nat
  BY ReaderFields DEF AuditInv
<1>4. CASE NextPage
  <2>1. reader.page + 1 \in Nat \ {0} /\ Turn(reader.page + 1)
    BY <1>3, <1>4 DEF NextPage
  <2>. QED BY <1>3, <2>1, TurnInv
<1>5. CASE PreviousPage
  <2>1. /\ reader.page - 1 \in Nat \ {0} /\ reader.page - 1 <= reader.page + 1
        /\ Turn(reader.page - 1)
    BY <1>3, <1>5 DEF PreviousPage
  <2>. QED BY <2>1, TurnInv
<1>6. CASE CloseLog
  BY <1>6, CloseLogInv
<1>7. CASE ForgetEntries
  BY <1>7, ForgetEntriesInv
<1>8. CASE GoStale
  BY <1>8, GoStaleInv
<1>9. CASE UNCHANGED auditVars
  BY <1>9 DEF auditVars, AuditInv, AuditTyped, Distinct, Mirrored, UnseenMatch, UnseenAhead,
              CacheOK, AnswerOK, Listed, Export
<1>. QED BY <1>1, <1>2, <1>4, <1>5, <1>6, <1>7, <1>8, <1>9 DEF AuditStep, AuditNext

(* The approvals share the process but no variable of the log.             *)
LEMMA StepOfLog == [Next]_vars => AuditStep
BY DEF Next, Restart, AuditStep, vars, auditVars

(* The invariant of the log holds in every state.                          *)
LEMMA AuditInvHolds == Spec => []AuditInv
<1>1. Init => AuditInv
  BY AuditInitInv DEF Init
<1>. QED BY <1>1, AuditNextInv, StepOfLog, PTL DEF Spec

-----------------------------------------------------------------------------
(* Every variable of the process has its type.                             *)
THEOREM GovernanceTypes == Spec => []TypeOK
<1>1. AuditInv => AuditTypeOK
  <2>. SUFFICES ASSUME AuditInv PROVE AuditTypeOK
    OBVIOUS
  <2>1. entries \in Seq(AuditEntry) /\ recorded \in 0 .. MaxRecords
    BY DEF AuditInv, AuditTyped
  <2>2. SUBSET (1 .. recorded) \subseteq SUBSET (1 .. MaxRecords)
    <3>1. 1 .. recorded \subseteq 1 .. MaxRecords
      BY <2>1, AuditAssumption
    <3>. QED BY <3>1
  <2>3. 0 .. recorded \subseteq 0 .. MaxRecords
    BY <2>1, AuditAssumption
  <2>4. reader \in [page : Nat, filter : Actor \cup {NoFilter}, total : Nat,
                    at : 0 .. MaxRecords, unseen : SUBSET (1 .. MaxRecords),
                    inOrder : BOOLEAN]
    BY <2>2, <2>3 DEF AuditInv, AuditTyped, Filters
  <2>5. cache \in Seq(CachedAnswer)
    BY DEF AuditInv, CacheOK
  <2>. QED BY <2>1, <2>4, <2>5 DEF AuditTypeOK
<1>. QED BY <1>1, AuditInvHolds, ApprovalsTypeCorrect, PTL DEF TypeOK

(* A reader who walks through the pages of a log that grows misses nothing *)
(* of what was there at the start, as long as the pages come in the order  *)
(* in which they were read.                                                *)
THEOREM WalksMissNothing == Spec => []WalkMissesNothing
<1>1. AuditInv => WalkMissesNothing
  <2>. SUFFICES ASSUME AuditInv, LastPage, reader.inOrder,
                       NEW id \in reader.unseen, id \in Ids(entries)
                PROVE  FALSE
    BY DEF WalkMissesNothing
  <2>1. PICK e \in Range(entries) : id = e.entry_id
    BY DEF Ids, ToSet, Range
  <2>2. PICK list, n : list = Listed(reader.filter) /\ n = Len(list)
    OBVIOUS
  <2>3. PICK page, total : page = reader.page /\ total = reader.total
    OBVIOUS
  <2>4. page \in Nat /\ total \in Nat /\ reader.filter \in Filters
    BY <2>3, ReaderFields DEF AuditInv
  <2>5. list \in Seq(AuditEntry) /\ n \in Nat
        /\ Range(list) = {d \in Range(entries) : Matches(d, reader.filter)}
    BY <2>2, <2>4, ListedFacts DEF AuditInv
  <2>6. e \in Range(list)
    BY <2>1, <2>5 DEF AuditInv, UnseenMatch
  <2>7. PICK i \in 1 .. n : list[i] = e
    BY <2>2, <2>5, <2>6 DEF Range
  <2>8. AheadOf(list, page, total, reader.at, reader.unseen)
    BY <2>2, <2>3 DEF AuditInv, UnseenAhead
  <2>9. Counts(list, total, reader.at) /\ Then(list, total, i) > page * PageSize
    BY <2>1, <2>2, <2>7, <2>8 DEF AheadOf
  <2>10. total <= n /\ i - (n - total) > page * PageSize
    BY <2>2, <2>9 DEF Counts, Then
  <2>11. page * PageSize \in Nat /\ page * PageSize >= total
    BY <2>3, <2>4, AuditAssumption DEF LastPage
  <2>. QED BY <2>4, <2>5, <2>7, <2>10, <2>11
<1>. QED BY <1>1, AuditInvHolds, PTL

-----------------------------------------------------------------------------
(* The pages put together.                                                 *)

(* Two parts of a list that follow each other.                             *)
LEMMA PartsJoin ==
  ASSUME NEW S, NEW list \in Seq(S), NEW a \in Nat, NEW c \in Nat, a <= c, c <= Len(list)
  PROVE  SubSeq(list, 1, a) \o SubSeq(list, a + 1, c) = SubSeq(list, 1, c)
<1>1. PICK s, t, u :
        s = SubSeq(list, 1, a) /\ t = SubSeq(list, a + 1, c) /\ u = SubSeq(list, 1, c)
  OBVIOUS
<1>2. PICK n \in Nat : n = Len(list)
  OBVIOUS
<1>3. \A i \in 1 .. c : list[i] \in S
  OBVIOUS
<1>4. /\ s \in Seq(S) /\ Len(s) = a /\ \A i \in 1 .. a : s[i] = list[i]
  <2>1. \A i \in 1 .. a : list[i] \in S
    BY <1>3
  <2>2. /\ s \in Seq(S) /\ Len(s) = IF 1 <= a THEN a - 1 + 1 ELSE 0
        /\ \A i \in 1 .. (a - 1 + 1) : s[i] = list[1 + i - 1]
    BY <1>1, <2>1, SubSeqProperties
  <2>. QED BY <2>2
<1>5. /\ u \in Seq(S) /\ Len(u) = c /\ \A i \in 1 .. c : u[i] = list[i]
  <2>2. /\ u \in Seq(S) /\ Len(u) = IF 1 <= c THEN c - 1 + 1 ELSE 0
        /\ \A i \in 1 .. (c - 1 + 1) : u[i] = list[1 + i - 1]
    BY <1>1, <1>3, SubSeqProperties
  <2>. QED BY <2>2
<1>6. /\ t \in Seq(S) /\ Len(t) = c - a /\ \A i \in 1 .. (c - a) : t[i] = list[a + i]
  <2>1. \A i \in (a + 1) .. c : list[i] \in S
    BY <1>3
  <2>2. /\ t \in Seq(S) /\ Len(t) = IF a + 1 <= c THEN c - (a + 1) + 1 ELSE 0
        /\ \A i \in 1 .. (c - (a + 1) + 1) : t[i] = list[(a + 1) + i - 1]
    BY <1>1, <2>1, SubSeqProperties
  <2>. QED BY <2>2
<1>7. /\ s \o t \in Seq(S) /\ Len(s \o t) = c
      /\ \A i \in 1 .. c : (s \o t)[i] = IF i <= a THEN s[i] ELSE t[i - a]
  <2>1. /\ s \o t \in Seq(S) /\ Len(s \o t) = Len(s) + Len(t)
        /\ \A i \in 1 .. (Len(s) + Len(t)) :
             (s \o t)[i] = IF i <= Len(s) THEN s[i] ELSE t[i - Len(s)]
    BY <1>4, <1>6, ConcatProperties
  <2>2. Len(s) + Len(t) = c /\ Len(s) = a
    BY <1>4, <1>6
  <2>. QED BY <2>1, <2>2
<1>8. ASSUME NEW i \in 1 .. c PROVE (s \o t)[i] = u[i]
  <2>1. CASE i <= a
    <3>1. i \in 1 .. a
      BY <2>1
    <3>. QED BY <1>4, <1>5, <1>7, <2>1, <3>1
  <2>2. CASE ~(i <= a)
    <3>1. i - a \in 1 .. (c - a) /\ a + (i - a) = i
      BY <2>2
    <3>. QED BY <1>5, <1>6, <1>7, <2>2, <3>1
  <2>. QED BY <2>1, <2>2
<1>. QED BY <1>1, <1>5, <1>7, <1>8, SeqEqual

\* Where the p-th page of a list of n ends.
EndOf(p, n) == IF p * PageSize < n THEN p * PageSize ELSE n

(* A page continues where the pages before it end.                         *)
LEMMA PageContinues ==
  ASSUME NEW list \in Seq(AuditEntry), NEW p \in Nat \ {0}
  PROVE  /\ EndOf(p, Len(list)) \in Nat /\ EndOf(p, Len(list)) <= Len(list)
         /\ PageOf(list, 1) = SubSeq(list, 1, EndOf(1, Len(list)))
         /\ SubSeq(list, 1, EndOf(p, Len(list))) \o PageOf(list, p + 1)
               = SubSeq(list, 1, EndOf(p + 1, Len(list)))
<1>1. PICK n \in Nat : n = Len(list)
  OBVIOUS
<1>2. PICK q, r : q = p * PageSize /\ r = (p + 1) * PageSize
  OBVIOUS
<1>3. q \in Nat /\ r \in Nat /\ q <= r
  BY <1>2, PageBounds, AuditAssumption
<1>4. PICK a, c : a = EndOf(p, n) /\ c = EndOf(p + 1, n)
  OBVIOUS
<1>5. a = (IF q < n THEN q ELSE n) /\ c = IF r < n THEN r ELSE n
  BY <1>2, <1>4 DEF EndOf
<1>6. a \in Nat /\ c \in Nat /\ a <= c /\ c <= n
  BY <1>3, <1>5
<1>7. PageOf(list, p + 1) = SubSeq(list, q + 1, c)
  <2>1. (p + 1) - 1 = p
    OBVIOUS
  <2>. QED BY <1>1, <1>2, <1>5, <2>1 DEF PageOf
<1>8. SubSeq(list, 1, a) \o SubSeq(list, q + 1, c) = SubSeq(list, 1, c)
  <2>1. CASE q < n
    BY <1>1, <1>5, <1>6, <2>1, PartsJoin
  <2>2. CASE q >= n
    <3>1. a = n /\ c = n /\ c < q + 1 /\ c < a + 1
      BY <1>1, <1>3, <1>5, <2>2
    <3>2. SubSeq(list, q + 1, c) = <<>> /\ SubSeq(list, a + 1, c) = <<>>
      BY <1>3, <1>6, <3>1, SubSeqEmpty
    <3>3. SubSeq(list, 1, a) \o SubSeq(list, a + 1, c) = SubSeq(list, 1, c)
      BY <1>1, <1>6, PartsJoin
    <3>. QED BY <3>2, <3>3
  <2>3. q < n \/ q >= n
    BY <1>1, <1>3
  <2>. QED BY ONLY <2>1, <2>2, <2>3
<1>9. PageOf(list, 1) = SubSeq(list, 1, EndOf(1, n))
  <2>1. (1 - 1) * PageSize + 1 = 1
    BY AuditAssumption
  <2>. QED BY <1>1, <2>1 DEF PageOf, EndOf
<1>10. EndOf(p, Len(list)) = a /\ EndOf(p + 1, Len(list)) = c /\ Len(list) = n
  BY <1>1, <1>4
<1>11. a <= n
  BY <1>1, <1>6
<1>12. SubSeq(list, 1, a) \o PageOf(list, p + 1) = SubSeq(list, 1, c)
  BY ONLY <1>7, <1>8, Zenon
<1>. QED BY ONLY <1>6, <1>9, <1>10, <1>11, <1>12, Zenon

(* As many pages as the list needs, put together, are the list.            *)
LEMMA PagesFlatten ==
  ASSUME NEW list \in Seq(AuditEntry), NEW k \in Nat, k * PageSize >= Len(list)
  PROVE  FlattenSeq([p \in 1 .. k |-> PageOf(list, p)]) = list
<1>1. PICK n \in Nat : n = Len(list)
  OBVIOUS
<1>2. PICK pages : pages = [p \in 1 .. k |-> PageOf(list, p)]
  OBVIOUS
<1>3. Len(pages) = k
  BY <1>2
<1>4. CASE k = 0
  <2>1. k * PageSize = 0
    BY <1>4, AuditAssumption
  <2>2. list = <<>>
    BY <1>1, <2>1
  <2>3. pages = <<>>
    BY <1>2, <1>4
  <2>. QED BY <1>2, <1>3, <1>4, <2>2, <2>3 DEF FlattenSeq
<1>5. CASE k # 0
  <2>. DEFINE w == [i \in 1 .. k |-> SubSeq(list, 1, EndOf(i, n))]
              Eq(f) == f = [i \in 1 .. Len(pages) |->
                              IF i = 1 THEN pages[i] ELSE f[i - 1] \o pages[i]]
              flatten == CHOOSE f : Eq(f)
  <2>1. \A i \in 1 .. k : pages[i] = PageOf(list, i)
    BY <1>2
  <2>2. ASSUME NEW i \in 1 .. k
        PROVE  w[i] = IF i = 1 THEN pages[i] ELSE w[i - 1] \o pages[i]
    <3>1. CASE i = 1
      <4>1. 1 \in Nat \ {0}
        OBVIOUS
      <4>2. PageOf(list, 1) = SubSeq(list, 1, EndOf(1, n))
        BY <1>1, <4>1, PageContinues
      <4>. QED BY <2>1, <3>1, <4>2
    <3>2. CASE i # 1
      <4>1. i - 1 \in Nat \ {0} /\ i - 1 \in 1 .. k /\ (i - 1) + 1 = i
        BY <3>2
      <4>2. SubSeq(list, 1, EndOf(i - 1, n)) \o PageOf(list, (i - 1) + 1)
              = SubSeq(list, 1, EndOf((i - 1) + 1, n))
        BY <1>1, <4>1, PageContinues
      <4>. QED BY <2>1, <3>2, <4>1, <4>2
    <3>. QED BY <3>1, <3>2
  <2>. HIDE DEF w
  <2>3. Eq(w)
    <3>1. w = [i \in 1 .. k |-> w[i]]
      BY DEF w
    <3>. QED BY <1>3, <2>2, <3>1
  <2>4. Eq(flatten)
    <3>. HIDE DEF Eq
    <3>. QED BY <2>3
  <2>5. FlattenSeq(pages) = flatten[k]
    BY <1>3, <1>5 DEF FlattenSeq
  <2>. HIDE DEF flatten
  <2>6. \A i \in 1 .. k : flatten[i] = IF i = 1 THEN pages[i] ELSE flatten[i - 1] \o pages[i]
    BY <1>3, <2>4
  <2>. HIDE DEF Eq
  <2>. DEFINE P == {i \in 0 .. (k - 1) : flatten[i + 1] = w[i + 1]}
  <2>7. k - 1 \in Nat
    BY <1>5
  <2>8. 0 \in P
    <3>1. 1 \in 1 .. k /\ 0 \in 0 .. (k - 1) /\ 0 + 1 = 1
      BY <1>5
    <3>. QED BY <2>2, <2>6, <3>1
  <2>9. ASSUME NEW i \in 0 .. ((k - 1) - 1), i \in P PROVE i + 1 \in P
    <3>1. /\ (i + 1) + 1 \in 1 .. k /\ (i + 1) + 1 # 1 /\ ((i + 1) + 1) - 1 = i + 1
          /\ i + 1 \in 0 .. (k - 1)
      OBVIOUS
    <3>2. flatten[(i + 1) + 1] = flatten[i + 1] \o pages[(i + 1) + 1]
      BY <2>6, <3>1
    <3>3. w[(i + 1) + 1] = w[i + 1] \o pages[(i + 1) + 1]
      BY <2>2, <3>1
    <3>. QED BY <2>9, <3>1, <3>2, <3>3
  <2>. HIDE DEF P
  <2>10. 0 .. (k - 1) \subseteq P
    BY <2>7, <2>8, <2>9, RangeInduction
  <2>11. flatten[k] = w[k]
    <3>1. k - 1 \in P /\ (k - 1) + 1 = k
      BY <2>7, <2>10
    <3>. QED BY <3>1 DEF P
  <2>12. w[k] = list
    <3>1. EndOf(k, n) = n
      BY <1>1, AuditAssumption DEF EndOf
    <3>2. SubSeq(list, 1, n) = list
      BY <1>1
    <3>. QED BY <1>5, <3>1, <3>2 DEF w
  <2>. QED BY <1>2, <2>5, <2>11, <2>12
<1>. QED BY <1>4, <1>5

(* The pages that a division rounded up makes of n entries hold all of n.  *)
LEMMA PagesSuffice ==
  ASSUME NEW n \in Nat, NEW size \in Nat \ {0}
  PROVE  /\ (n + size - 1) \div size \in Nat
         /\ ((n + size - 1) \div size) * size >= n
<1>1. n + size - 1 \in Nat
  OBVIOUS
<1>2. PICK m \in Nat : m = n + size - 1
  BY <1>1
<1>3. m \div size \in Nat
  BY <1>2
<1>4. m = size * (m \div size) + (m % size) /\ m % size \in 0 .. (size - 1)
  BY <1>2
<1>5. PICK k \in Nat : k = m \div size
  BY <1>3
<1>6. size * k >= n /\ k * size = size * k
  BY <1>2, <1>4, <1>5
<1>. QED BY <1>2, <1>5, <1>6

(* The pages of a list, put together, are the export in reverse.           *)
THEOREM PagesMakeExport == Spec => []PagesAddUpToExport
<1>1. AuditInv => PagesAddUpToExport
  <2>. SUFFICES ASSUME AuditInv, NEW filter \in Filters
                PROVE  LET pages == (Count(filter) + PageSize - 1) \div PageSize
                       IN  FlattenSeq([page \in 1 .. pages |-> ListEntries(filter, page)])
                             = Reverse(Export(filter))
    BY DEF PagesAddUpToExport, Filters
  <2>1. PICK k : k = (Count(filter) + PageSize - 1) \div PageSize
    OBVIOUS
  <2>2. PICK list : list = Listed(filter)
    OBVIOUS
  <2>3. list \in Seq(AuditEntry) /\ Count(filter) = Len(list) /\ Count(filter) \in Nat
    BY <2>2, ListedFacts DEF AuditInv
  <2>4. k \in Nat /\ k * PageSize >= Len(list)
    BY <2>1, <2>3, PagesSuffice, AuditAssumption
  <2>5. FlattenSeq([page \in 1 .. k |-> PageOf(list, page)]) = list
    BY <2>3, <2>4, PagesFlatten
  <2>6. \A page : ListEntries(filter, page) = PageOf(list, page)
    BY <2>2 DEF ListEntries, Listed
  <2>7. list = Reverse(Export(filter))
    BY <2>2 DEF AuditInv, Mirrored
  <2>. QED BY <2>1, <2>5, <2>6, <2>7
<1>. QED BY <1>1, AuditInvHolds, PTL

-----------------------------------------------------------------------------
(* Escaping and reading back.                                              *)

\* How one replacement, and a SIEM, take up a symbol.
EscapeStep(symbol) ==
  [p \in Seq(Symbol) \X Symbol |->
     IF p[2] = symbol THEN p[1] \o <<"\\", p[2]>> ELSE Append(p[1], p[2])]

Reading == {ReadSoFar(text, after) : text \in Seq(Symbol), after \in BOOLEAN}

ReadStep ==
  [p \in Reading \X Symbol |->
     IF p[1].after THEN ReadSoFar(Append(p[1].text, p[2]), FALSE)
     ELSE IF p[2] = "\\" THEN ReadSoFar(p[1].text, TRUE)
     ELSE ReadSoFar(Append(p[1].text, p[2]), FALSE)]

(* What they make of it is a text.                                         *)
LEMMA EscapeStepFacts ==
  ASSUME NEW symbol \in Symbol
  PROVE  \A v \in Seq(Symbol) : \A c \in Symbol :
           /\ EscapeStep(symbol)[<<v, c>>] =
                IF c = symbol THEN v \o <<"\\", c>> ELSE Append(v, c)
           /\ EscapeStep(symbol)[<<v, c>>] \in Seq(Symbol)
<1>1. ASSUME NEW v \in Seq(Symbol), NEW c \in Symbol
      PROVE  v \o <<"\\", c>> \in Seq(Symbol) /\ Append(v, c) \in Seq(Symbol)
  <2>1. <<"\\", c>> \in Seq(Symbol)
    BY AuditAssumption
  <2>. QED BY <2>1, ConcatProperties, AppendFacts
<1>2. ASSUME NEW v \in Seq(Symbol), NEW c \in Symbol
      PROVE  EscapeStep(symbol)[<<v, c>>] =
               IF c = symbol THEN v \o <<"\\", c>> ELSE Append(v, c)
  BY DEF EscapeStep
<1>3. ASSUME NEW v \in Seq(Symbol), NEW c \in Symbol
      PROVE  EscapeStep(symbol)[<<v, c>>] \in Seq(Symbol)
  BY <1>1, <1>2
<1>. QED BY <1>2, <1>3

(* What has been read.                                                     *)
LEMMA ReadingFacts ==
  /\ \A text \in Seq(Symbol), after \in BOOLEAN :
       /\ ReadSoFar(text, after) \in Reading
       /\ ReadSoFar(text, after).text = text
       /\ ReadSoFar(text, after).after = after
  /\ \A r \in Reading : r.text \in Seq(Symbol) /\ r.after \in BOOLEAN
  /\ ReadSoFar(<<>>, FALSE) \in Reading
<1>1. \A text, after : ReadSoFar(text, after).text = text /\ ReadSoFar(text, after).after = after
  BY DEF ReadSoFar
<1>2. \A text \in Seq(Symbol), after \in BOOLEAN : ReadSoFar(text, after) \in Reading
  BY DEF Reading
<1>3. ASSUME NEW r \in Reading PROVE r.text \in Seq(Symbol) /\ r.after \in BOOLEAN
  <2>1. PICK text \in Seq(Symbol), after \in BOOLEAN : r = ReadSoFar(text, after)
    BY DEF Reading
  <2>. QED BY <1>1, <2>1
<1>4. <<>> \in Seq(Symbol)
  BY EmptyFacts
<1>. QED BY <1>1, <1>2, <1>3, <1>4

(* How a SIEM takes up a symbol.                                           *)
LEMMA ReadStepFacts ==
  /\ ReadSoFar(<<>>, FALSE) \in Reading
  /\ \A v \in Reading : \A c \in Symbol :
       /\ ReadStep[<<v, c>>] = IF v.after THEN ReadSoFar(Append(v.text, c), FALSE)
                               ELSE IF c = "\\" THEN ReadSoFar(v.text, TRUE)
                               ELSE ReadSoFar(Append(v.text, c), FALSE)
       /\ ReadStep[<<v, c>>] \in Reading
<1>1. ASSUME NEW v \in Reading, NEW c \in Symbol
      PROVE  ReadStep[<<v, c>>] = IF v.after THEN ReadSoFar(Append(v.text, c), FALSE)
                                 ELSE IF c = "\\" THEN ReadSoFar(v.text, TRUE)
                                 ELSE ReadSoFar(Append(v.text, c), FALSE)
  BY DEF ReadStep
<1>2. ASSUME NEW v \in Reading, NEW c \in Symbol
      PROVE  ReadStep[<<v, c>>] \in Reading
  <2>1. v.text \in Seq(Symbol) /\ Append(v.text, c) \in Seq(Symbol)
    BY ReadingFacts, AppendFacts
  <2>2. /\ ReadSoFar(v.text, TRUE) \in Reading
        /\ ReadSoFar(Append(v.text, c), FALSE) \in Reading
    BY <2>1, ReadingFacts
  <2>. QED BY <1>1, <2>2
<1>. QED BY <1>1, <1>2, ReadingFacts

(* One replacement takes the symbols of a text one after the other.        *)
LEMMA EscapedRuns ==
  ASSUME NEW text \in Seq(Symbol), NEW symbol \in Symbol
  PROVE  \E f : IsRun(f, <<>>, EscapeStep(symbol), text, Seq(Symbol)) /\ Escaped(text, symbol) = f[Len(text)]
<1>. DEFINE n == Len(text)
            T == Seq(Symbol)
            Step(v, c) == IF c = symbol THEN v \o <<"\\", c>> ELSE Append(v, c)
            g == [p \in (1 .. n) \X T |-> EscapeStep(symbol)[<<p[2], text[p[1]]>>]]
            Eq(h) == h = [s \in SUBSET (1 .. n) |-> IF s = {} THEN <<>>
                            ELSE Step(h[s \ {Max(s)}], text[Max(s)])]
            iter == CHOOSE h : Eq(h)
            f == [i \in 0 .. n |-> iter[1 .. i]]
<1>1. n \in Nat /\ DOMAIN text = 1 .. n /\ \A i \in 1 .. n : text[i] \in Symbol
  OBVIOUS
<1>2. Escaped(text, symbol) = iter[1 .. n]
  BY <1>1 DEF Escaped, FoldLeft, MapThenFoldSet
<1>3. \A v \in T : \A c \in Symbol :
        EscapeStep(symbol)[<<v, c>>] = Step(v, c) /\ EscapeStep(symbol)[<<v, c>>] \in T
  BY EscapeStepFacts, EmptyFacts
<1>. HIDE DEF Step, T
<1>4. \A i \in 1 .. n : \A v \in T : g[<<i, v>>] = Step(v, text[i]) /\ g[<<i, v>>] \in T
  BY <1>1, <1>3
<1>. HIDE DEF g
<1>5. PICK it \in [SUBSET (1 .. n) -> T] : IsLeftFold(it, <<>>, g, n)
  <2>1. IsStep(g, 1 .. n, T)
    BY <1>4 DEF IsStep
  <2>2. <<>> \in T
    BY EscapeStepFacts, EmptyFacts DEF T
  <2>. QED BY <1>1, <2>1, <2>2, LeftFoldExists
<1>6. Eq(it)
  BY <1>4, <1>5 DEF IsLeftFold
<1>7. Eq(iter)
  <2>. HIDE DEF Eq
  <2>. QED BY <1>6
<1>. HIDE DEF iter
<1>8. f[0] = <<>>
  <2>1. 1 .. 0 = {} /\ 0 \in 0 .. n
    BY <1>1
  <2>. QED BY <1>7, <2>1
<1>9. ASSUME NEW i \in 1 .. n, f[i - 1] \in T
      PROVE  f[i] = EscapeStep(symbol)[<<f[i - 1], text[i]>>]
  <2>1. /\ i \in 0 .. n /\ i - 1 \in 0 .. n
        /\ 1 .. i \in SUBSET (1 .. n) /\ 1 .. i # {}
        /\ Max(1 .. i) = i /\ (1 .. i) \ {i} = 1 .. (i - 1)
    BY <1>1, MaxOfInterval
  <2>2. f[i] = Step(f[i - 1], text[i])
    BY <1>7, <2>1
  <2>. QED BY <1>1, <1>3, <1>9, <2>2
<1>10. Escaped(text, symbol) = f[n]
  BY <1>1, <1>2
<1>. HIDE DEF f
<1>. QED BY <1>8, <1>9, <1>10 DEF IsRun, T

(* So does a SIEM.                                                         *)
LEMMA ReadRuns ==
  ASSUME NEW text \in Seq(Symbol)
  PROVE  \E f : IsRun(f, ReadSoFar(<<>>, FALSE), ReadStep, text, Reading) /\ Read(text) = f[Len(text)]
<1>. DEFINE n == Len(text)
            T == Reading
            Step(v, c) == IF v.after THEN ReadSoFar(Append(v.text, c), FALSE)
                          ELSE IF c = "\\" THEN ReadSoFar(v.text, TRUE)
                          ELSE ReadSoFar(Append(v.text, c), FALSE)
            g == [p \in (1 .. n) \X T |-> ReadStep[<<p[2], text[p[1]]>>]]
            Eq(h) == h = [s \in SUBSET (1 .. n) |-> IF s = {} THEN ReadSoFar(<<>>, FALSE)
                            ELSE Step(h[s \ {Max(s)}], text[Max(s)])]
            iter == CHOOSE h : Eq(h)
            f == [i \in 0 .. n |-> iter[1 .. i]]
<1>1. n \in Nat /\ DOMAIN text = 1 .. n /\ \A i \in 1 .. n : text[i] \in Symbol
  OBVIOUS
<1>2. Read(text) = iter[1 .. n]
  BY <1>1 DEF Read, FoldLeft, MapThenFoldSet
<1>3. \A v \in T : \A c \in Symbol :
        ReadStep[<<v, c>>] = Step(v, c) /\ ReadStep[<<v, c>>] \in T
  BY ReadStepFacts
<1>. HIDE DEF Step, T
<1>4. \A i \in 1 .. n : \A v \in T : g[<<i, v>>] = Step(v, text[i]) /\ g[<<i, v>>] \in T
  BY <1>1, <1>3
<1>. HIDE DEF g
<1>5. PICK it \in [SUBSET (1 .. n) -> T] : IsLeftFold(it, ReadSoFar(<<>>, FALSE), g, n)
  <2>1. IsStep(g, 1 .. n, T)
    BY <1>4 DEF IsStep
  <2>2. ReadSoFar(<<>>, FALSE) \in T
    BY ReadStepFacts DEF T
  <2>. QED BY <1>1, <2>1, <2>2, LeftFoldExists
<1>6. Eq(it)
  BY <1>4, <1>5 DEF IsLeftFold
<1>7. Eq(iter)
  <2>. HIDE DEF Eq
  <2>. QED BY <1>6
<1>. HIDE DEF iter
<1>8. f[0] = ReadSoFar(<<>>, FALSE)
  <2>1. 1 .. 0 = {} /\ 0 \in 0 .. n
    BY <1>1
  <2>. QED BY <1>7, <2>1
<1>9. ASSUME NEW i \in 1 .. n, f[i - 1] \in T
      PROVE  f[i] = ReadStep[<<f[i - 1], text[i]>>]
  <2>1. /\ i \in 0 .. n /\ i - 1 \in 0 .. n
        /\ 1 .. i \in SUBSET (1 .. n) /\ 1 .. i # {}
        /\ Max(1 .. i) = i /\ (1 .. i) \ {i} = 1 .. (i - 1)
    BY <1>1, MaxOfInterval
  <2>2. f[i] = Step(f[i - 1], text[i])
    BY <1>7, <2>1
  <2>. QED BY <1>1, <1>3, <1>9, <2>2
<1>10. Read(text) = f[n]
  BY <1>1, <1>2
<1>. HIDE DEF f
<1>. QED BY <1>8, <1>9, <1>10 DEF IsRun, T

(* A last symbol is replaced last.                                         *)
LEMMA EscapedAppended ==
  ASSUME NEW text \in Seq(Symbol), NEW c \in Symbol, NEW symbol \in Symbol
  PROVE  /\ Escaped(text, symbol) \in Seq(Symbol)
         /\ Escaped(<<>>, symbol) = <<>>
         /\ Escaped(Append(text, c), symbol) =
              IF c = symbol THEN Append(Append(Escaped(text, symbol), "\\"), c)
              ELSE Append(Escaped(text, symbol), c)
<1>1. <<>> \in Seq(Symbol) /\ Len(<<>>) = 0 /\ Append(text, c) \in Seq(Symbol)
  BY EmptyFacts, AppendFacts
<1>2. \A v \in Seq(Symbol) : \A e \in Symbol : EscapeStep(symbol)[<<v, e>>] \in Seq(Symbol)
  BY EscapeStepFacts
<1>3. Escaped(<<>>, symbol) = <<>>
  <2>1. PICK f : /\ IsRun(f, <<>>, EscapeStep(symbol), <<>>, Seq(Symbol))
                 /\ Escaped(<<>>, symbol) = f[Len(<<>>)]
    BY <1>1, EscapedRuns
  <2>. QED BY <1>1, <2>1 DEF IsRun
<1>4. PICK f : /\ IsRun(f, <<>>, EscapeStep(symbol), text, Seq(Symbol))
               /\ Escaped(text, symbol) = f[Len(text)]
  BY EscapedRuns
<1>5. PICK h : /\ IsRun(h, <<>>, EscapeStep(symbol), Append(text, c), Seq(Symbol))
               /\ Escaped(Append(text, c), symbol) = h[Len(Append(text, c))]
  BY <1>1, EscapedRuns
<1>6. PICK done : done = Escaped(text, symbol)
  OBVIOUS
<1>7. /\ done \in Seq(Symbol)
      /\ Escaped(Append(text, c), symbol) = EscapeStep(symbol)[<<done, c>>]
  <2>1. PICK T, b, g : T = Seq(Symbol) /\ b = <<>> /\ g = EscapeStep(symbol)
    OBVIOUS
  <2>2. b \in T /\ \A v \in T : \A x \in Symbol : g[<<v, x>>] \in T
    BY <1>1, <1>2, <2>1
  <2>3. IsRun(f, b, g, text, T) /\ IsRun(h, b, g, Append(text, c), T)
    BY <1>4, <1>5, <2>1
  <2>4. \A i \in 0 .. Len(text) : f[i] \in T
    BY <2>2, <2>3, RunStays
  <2>5. h[Len(text) + 1] = g[<<f[Len(text)], c>>]
    BY <2>2, <2>3, RunAppended
  <2>6. Len(Append(text, c)) = Len(text) + 1 /\ Len(text) \in 0 .. Len(text)
    BY AppendFacts
  <2>. QED BY <1>4, <1>5, <1>6, <2>1, <2>4, <2>5, <2>6
<1>8. EscapeStep(symbol)[<<done, c>>] =
        IF c = symbol THEN done \o <<"\\", c>> ELSE Append(done, c)
  BY <1>7, EscapeStepFacts
<1>9. done \o <<"\\", c>> = Append(Append(done, "\\"), c)
  BY <1>7, AuditAssumption
<1>. QED BY <1>3, <1>6, <1>7, <1>8, <1>9

(* The three replacements put one backslash before a symbol that CEF tells *)
(* apart, and none before any other.                                       *)
LEMMA EscAppended ==
  ASSUME NEW text \in Seq(Symbol), NEW c \in Symbol
  PROVE  /\ Esc(text) \in Seq(Symbol)
         /\ Esc(<<>>) = <<>>
         /\ Esc(Append(text, c)) = IF c \in {"\\", "=", "|"}
                                   THEN Append(Append(Esc(text), "\\"), c)
                                   ELSE Append(Esc(text), c)
<1>1. "\\" \in Symbol /\ "=" \in Symbol /\ "|" \in Symbol
  BY AuditAssumption
<1>2. "\\" # "=" /\ "\\" # "|" /\ "=" # "|"
  OBVIOUS
<1>3. PICK first : first = Escaped(text, "\\")
  OBVIOUS
<1>4. first \in Seq(Symbol)
  BY <1>1, <1>3, EscapedAppended
<1>5. PICK second : second = Escaped(first, "=")
  OBVIOUS
<1>6. second \in Seq(Symbol)
  BY <1>1, <1>4, <1>5, EscapedAppended
<1>7. PICK third : third = Escaped(second, "|")
  OBVIOUS
<1>8. third \in Seq(Symbol) /\ Esc(text) = third
  BY <1>1, <1>3, <1>5, <1>6, <1>7, EscapedAppended DEF Esc
<1>9. Esc(<<>>) = <<>>
  BY <1>1, EscapedAppended DEF Esc
<1>10. /\ Append(first, "\\") \in Seq(Symbol) /\ Append(first, c) \in Seq(Symbol)
       /\ Append(second, "\\") \in Seq(Symbol) /\ Append(second, c) \in Seq(Symbol)
  BY <1>1, <1>4, <1>6, AppendFacts
<1>11. Escaped(Append(text, c), "\\") =
         IF c = "\\" THEN Append(Append(first, "\\"), c) ELSE Append(first, c)
  BY <1>1, <1>3, EscapedAppended
<1>12. /\ Escaped(Append(first, c), "=") =
            IF c = "=" THEN Append(Append(second, "\\"), c) ELSE Append(second, c)
       /\ Escaped(Append(first, "\\"), "=") = Append(second, "\\")
  BY <1>1, <1>2, <1>4, <1>5, EscapedAppended
<1>13. /\ Escaped(Append(second, c), "|") =
            IF c = "|" THEN Append(Append(third, "\\"), c) ELSE Append(third, c)
       /\ Escaped(Append(second, "\\"), "|") = Append(third, "\\")
  BY <1>1, <1>2, <1>6, <1>7, EscapedAppended
<1>14. CASE c = "\\"
  <2>1. Escaped(Append(text, c), "\\") = Append(Append(first, "\\"), "\\")
    BY <1>11, <1>14
  <2>2. PICK one, two : one = Append(first, "\\") /\ two = Append(second, "\\")
    OBVIOUS
  <2>3. Escaped(Append(one, "\\"), "=") = Append(two, "\\")
    <3>1. Escaped(one, "=") = two /\ one \in Seq(Symbol)
      BY <1>10, <1>12, <2>2
    <3>. QED BY <1>1, <1>2, <3>1, EscapedAppended
  <2>4. Escaped(Append(two, "\\"), "|") = Append(Append(third, "\\"), "\\")
    <3>1. Escaped(two, "|") = Append(third, "\\") /\ two \in Seq(Symbol)
      BY <1>10, <1>13, <2>2
    <3>2. Escaped(Append(two, "\\"), "|") = Append(Escaped(two, "|"), "\\")
      BY <1>1, <1>2, <3>1, EscapedAppended
    <3>. QED BY <3>1, <3>2
  <2>. QED BY <1>8, <1>9, <1>14, <2>1, <2>2, <2>3, <2>4 DEF Esc
<1>15. CASE c = "="
  <2>1. Escaped(Append(text, c), "\\") = Append(first, "=")
    BY <1>2, <1>11, <1>15
  <2>2. Escaped(Append(first, "="), "=") = Append(Append(second, "\\"), "=")
    BY <1>12, <1>15
  <2>3. Escaped(Append(Append(second, "\\"), "="), "|") = Append(Append(third, "\\"), "=")
    <3>1. PICK two : two = Append(second, "\\")
      OBVIOUS
    <3>2. Escaped(two, "|") = Append(third, "\\") /\ two \in Seq(Symbol)
      BY <1>10, <1>13, <3>1
    <3>3. Escaped(Append(two, "="), "|") = Append(Escaped(two, "|"), "=")
      BY <1>1, <1>2, <3>2, EscapedAppended
    <3>. QED BY <3>1, <3>2, <3>3
  <2>. QED BY <1>8, <1>9, <1>15, <2>1, <2>2, <2>3 DEF Esc
<1>16. CASE c = "|"
  <2>1. Escaped(Append(text, c), "\\") = Append(first, "|")
    BY <1>2, <1>11, <1>16
  <2>2. Escaped(Append(first, "|"), "=") = Append(second, "|")
    BY <1>2, <1>12, <1>16
  <2>3. Escaped(Append(second, "|"), "|") = Append(Append(third, "\\"), "|")
    BY <1>13, <1>16
  <2>. QED BY <1>8, <1>9, <1>16, <2>1, <2>2, <2>3 DEF Esc
<1>17. CASE c \notin {"\\", "=", "|"}
  <2>1. /\ Escaped(Append(text, c), "\\") = Append(first, c)
        /\ Escaped(Append(first, c), "=") = Append(second, c)
        /\ Escaped(Append(second, c), "|") = Append(third, c)
    BY <1>11, <1>12, <1>13, <1>17
  <2>. QED BY <1>8, <1>9, <1>17, <2>1 DEF Esc
<1>. QED BY <1>14, <1>15, <1>16, <1>17

(* A last symbol is read last.                                             *)
LEMMA ReadAppended ==
  ASSUME NEW text \in Seq(Symbol), NEW c \in Symbol
  PROVE  /\ Read(<<>>) = ReadSoFar(<<>>, FALSE)
         /\ Read(Append(text, c)) = ReadStep[<<Read(text), c>>]
<1>1. <<>> \in Seq(Symbol) /\ Len(<<>>) = 0 /\ Append(text, c) \in Seq(Symbol)
  BY EmptyFacts, AppendFacts
<1>2. Read(<<>>) = ReadSoFar(<<>>, FALSE)
  <2>1. PICK f : /\ IsRun(f, ReadSoFar(<<>>, FALSE), ReadStep, <<>>, Reading)
                 /\ Read(<<>>) = f[Len(<<>>)]
    BY <1>1, ReadRuns
  <2>. QED BY <1>1, <2>1 DEF IsRun
<1>3. PICK f : /\ IsRun(f, ReadSoFar(<<>>, FALSE), ReadStep, text, Reading)
               /\ Read(text) = f[Len(text)]
  BY ReadRuns
<1>4. PICK h : /\ IsRun(h, ReadSoFar(<<>>, FALSE), ReadStep, Append(text, c), Reading)
               /\ Read(Append(text, c)) = h[Len(Append(text, c))]
  BY <1>1, ReadRuns
<1>5. /\ \A v \in Reading : \A e \in Symbol : ReadStep[<<v, e>>] \in Reading
      /\ ReadSoFar(<<>>, FALSE) \in Reading
  BY ReadStepFacts
<1>6. h[Len(Append(text, c))] = ReadStep[<<f[Len(text)], c>>]
  <2>1. PICK b, g : b = ReadSoFar(<<>>, FALSE) /\ g = ReadStep
    OBVIOUS
  <2>2. b \in Reading /\ \A v \in Reading : \A x \in Symbol : g[<<v, x>>] \in Reading
    BY <1>5, <2>1
  <2>3. IsRun(f, b, g, text, Reading) /\ IsRun(h, b, g, Append(text, c), Reading)
    BY <1>3, <1>4, <2>1
  <2>4. h[Len(text) + 1] = g[<<f[Len(text)], c>>]
    BY <2>2, <2>3, RunAppended
  <2>5. Len(Append(text, c)) = Len(text) + 1
    BY AppendFacts
  <2>. QED BY <2>1, <2>4, <2>5
<1>. QED BY <1>2, <1>3, <1>4, <1>6

(* What was escaped reads back as it was.                                  *)
LEMMA EscReadsBack ==
  ASSUME NEW text \in Seq(Symbol)
  PROVE  Unescaped(Esc(text)) = text
<1>. DEFINE n == Len(text)
            Prefix(i) == SubSeq(text, 1, i)
            P == {i \in 0 .. n : Read(Esc(Prefix(i))) = ReadSoFar(Prefix(i), FALSE)}
<1>1. n \in Nat /\ \A i \in 1 .. n : text[i] \in Symbol
  OBVIOUS
<1>2. Prefix(0) = <<>> /\ Prefix(n) = text
  OBVIOUS
<1>3. \A i \in 0 .. n : Prefix(i) \in Seq(Symbol)
  OBVIOUS
<1>4. \A i \in 0 .. (n - 1) : Prefix(i + 1) = Append(Prefix(i), text[i + 1])
  OBVIOUS
<1>. HIDE DEF Prefix
<1>5. 0 \in P
  <2>1. <<>> \in Seq(Symbol) /\ "\\" \in Symbol
    BY AuditAssumption, EmptyFacts
  <2>2. Esc(<<>>) = <<>> /\ Read(<<>>) = ReadSoFar(<<>>, FALSE)
    BY <2>1, EscAppended, ReadAppended
  <2>3. PICK none : none = <<>>
    OBVIOUS
  <2>4. Read(Esc(none)) = ReadSoFar(none, FALSE) /\ Prefix(0) = none
    BY <1>2, <2>2, <2>3
  <2>5. 0 \in 0 .. n
    BY <1>1
  <2>. QED BY <2>4, <2>5, Zenon
<1>6. ASSUME NEW i \in 0 .. (n - 1), i \in P
      PROVE  i + 1 \in P
  <2>1. i \in 0 .. n /\ i + 1 \in 0 .. n /\ i + 1 \in 1 .. n
    BY <1>1
  <2>2. PICK done, c : done = Prefix(i) /\ c = text[i + 1]
    OBVIOUS
  <2>3. done \in Seq(Symbol) /\ c \in Symbol /\ Prefix(i + 1) = Append(done, c)
    BY <1>1, <1>3, <1>4, <2>1, <2>2
  <2>4. PICK esc : esc = Esc(done)
    OBVIOUS
  <2>5. /\ esc \in Seq(Symbol) /\ "\\" \in Symbol
        /\ Append(esc, "\\") \in Seq(Symbol)
        /\ Read(esc) = ReadSoFar(done, FALSE)
    BY <1>6, <2>2, <2>3, <2>4, AuditAssumption, EscAppended, AppendFacts
  <2>6. /\ ReadSoFar(done, FALSE) \in Reading /\ ReadSoFar(done, TRUE) \in Reading
        /\ ReadSoFar(done, FALSE).text = done /\ ReadSoFar(done, TRUE).text = done
        /\ ReadSoFar(done, FALSE).after = FALSE /\ ReadSoFar(done, TRUE).after = TRUE
    BY <2>3, ReadingFacts
  <2>7. /\ ReadStep[<<ReadSoFar(done, FALSE), "\\">>] = ReadSoFar(done, TRUE)
        /\ ReadStep[<<ReadSoFar(done, TRUE), c>>] = ReadSoFar(Append(done, c), FALSE)
        /\ c # "\\" => ReadStep[<<ReadSoFar(done, FALSE), c>>] = ReadSoFar(Append(done, c), FALSE)
    BY <2>3, <2>5, <2>6, ReadStepFacts
  <2>8. CASE c \in {"\\", "=", "|"}
    <3>1. Esc(Append(done, c)) = Append(Append(esc, "\\"), c)
      BY <2>3, <2>4, <2>8, EscAppended
    <3>2. Read(Append(esc, "\\")) = ReadSoFar(done, TRUE)
      BY <2>5, <2>7, ReadAppended
    <3>3. Read(Append(Append(esc, "\\"), c)) = ReadSoFar(Append(done, c), FALSE)
      BY <2>3, <2>5, <2>7, <3>2, ReadAppended
    <3>. QED BY <2>1, <2>3, <3>1, <3>3
  <2>9. CASE c \notin {"\\", "=", "|"}
    <3>1. Esc(Append(done, c)) = Append(esc, c)
      BY <2>3, <2>4, <2>9, EscAppended
    <3>2. Read(Append(esc, c)) = ReadSoFar(Append(done, c), FALSE)
      BY <2>3, <2>5, <2>7, <2>9, ReadAppended
    <3>. QED BY <2>1, <2>3, <3>1, <3>2
  <2>. QED BY <2>8, <2>9
<1>. HIDE DEF P
<1>7. 0 .. n \subseteq P
  BY <1>1, <1>5, <1>6, RangeInduction
<1>8. Read(Esc(text)) = ReadSoFar(text, FALSE)
  <2>1. n \in P
    BY <1>1, <1>7
  <2>. QED BY <1>2, <2>1 DEF P
<1>. QED BY <1>8, ReadingFacts DEF Unescaped

(* A line that was escaped is one line still.                              *)
LEMMA EscKeepsLine ==
  ASSUME NEW text \in Seq(Symbol), "\n" \notin Range(text)
  PROVE  Esc(text) \in Seq(Symbol) /\ "\n" \notin Range(Esc(text))
<1>. DEFINE n == Len(text)
            Prefix(i) == SubSeq(text, 1, i)
            P == {i \in 0 .. n : "\n" \notin Range(Esc(Prefix(i)))}
<1>1. n \in Nat /\ \A i \in 1 .. n : text[i] \in Symbol /\ text[i] # "\n"
  BY DEF Range
<1>2. Prefix(0) = <<>> /\ Prefix(n) = text
  OBVIOUS
<1>3. \A i \in 0 .. n : Prefix(i) \in Seq(Symbol)
  OBVIOUS
<1>4. \A i \in 0 .. (n - 1) : Prefix(i + 1) = Append(Prefix(i), text[i + 1])
  OBVIOUS
<1>. HIDE DEF Prefix
<1>5. 0 \in P
  <2>1. <<>> \in Seq(Symbol) /\ "\\" \in Symbol /\ Range(<<>>) = {}
    BY AuditAssumption, EmptyFacts
  <2>2. PICK none : none = <<>>
    OBVIOUS
  <2>3. Esc(none) = none /\ Prefix(0) = none /\ Range(none) = {}
    BY <1>2, <2>1, <2>2, EscAppended
  <2>4. 0 \in 0 .. n
    BY <1>1
  <2>. QED BY <2>3, <2>4
<1>6. ASSUME NEW i \in 0 .. (n - 1), i \in P
      PROVE  i + 1 \in P
  <2>1. i \in 0 .. n /\ i + 1 \in 0 .. n /\ i + 1 \in 1 .. n
    BY <1>1
  <2>2. PICK done, c, esc : done = Prefix(i) /\ c = text[i + 1] /\ esc = Esc(done)
    OBVIOUS
  <2>3. /\ done \in Seq(Symbol) /\ c \in Symbol /\ c # "\n"
        /\ Prefix(i + 1) = Append(done, c)
    BY <1>1, <1>3, <1>4, <2>1, <2>2
  <2>4. esc \in Seq(Symbol) /\ "\n" \notin Range(esc) /\ "\\" \in Symbol
    BY <1>6, <2>2, <2>3, AuditAssumption, EscAppended
  <2>5. PICK one : one = Append(esc, "\\")
    OBVIOUS
  <2>6. /\ one \in Seq(Symbol) /\ "\n" \notin Range(one)
        /\ "\n" \notin Range(Append(esc, c))
    <3>1. one \in Seq(Symbol) /\ Range(one) = Range(esc) \cup {"\\"}
      BY <2>4, <2>5, AppendFacts
    <3>2. Range(Append(esc, c)) = Range(esc) \cup {c}
      BY <2>3, <2>4, AppendFacts
    <3>. QED BY <2>3, <2>4, <3>1, <3>2
  <2>7. "\n" \notin Range(Append(one, c))
    <3>1. Range(Append(one, c)) = Range(one) \cup {c}
      BY <2>3, <2>6, AppendFacts
    <3>. QED BY <2>3, <2>6, <3>1
  <2>8. \/ Esc(Append(done, c)) = Append(one, c)
        \/ Esc(Append(done, c)) = Append(esc, c)
    BY <2>2, <2>3, <2>5, EscAppended
  <2>. QED BY <2>1, <2>3, <2>6, <2>7, <2>8
<1>. HIDE DEF P
<1>7. 0 .. n \subseteq P
  BY <1>1, <1>5, <1>6, RangeInduction
<1>8. "\n" \notin Range(Esc(text))
  <2>1. n \in P
    BY <1>1, <1>7
  <2>. QED BY <1>2, <2>1 DEF P
<1>9. Esc(text) \in Seq(Symbol)
  <2>1. "\\" \in Symbol
    BY AuditAssumption
  <2>. QED BY <2>1, EscAppended
<1>. QED BY <1>8, <1>9

-----------------------------------------------------------------------------
(* The lines of a file.                                                    *)

Splits == {SplitSoFar(done, line) : done \in Seq(Seq(Symbol)), line \in Seq(Symbol)}

\* How a reader of lines takes up a symbol.
SplitStep ==
  [p \in Splits \X Symbol |->
     IF p[2] = "\n" THEN SplitSoFar(Append(p[1].done, p[1].line), <<>>)
     ELSE SplitSoFar(p[1].done, Append(p[1].line, p[2]))]

(* What has been split.                                                    *)
LEMMA SplitsFacts ==
  /\ \A done, line : SplitSoFar(done, line).done = done /\ SplitSoFar(done, line).line = line
  /\ \A done \in Seq(Seq(Symbol)), line \in Seq(Symbol) : SplitSoFar(done, line) \in Splits
  /\ \A v \in Splits : v.done \in Seq(Seq(Symbol)) /\ v.line \in Seq(Symbol)
  /\ SplitSoFar(<<>>, <<>>) \in Splits
<1>1. \A done, line : SplitSoFar(done, line).done = done /\ SplitSoFar(done, line).line = line
  BY DEF SplitSoFar
<1>2. \A done \in Seq(Seq(Symbol)), line \in Seq(Symbol) : SplitSoFar(done, line) \in Splits
  BY DEF Splits
<1>3. ASSUME NEW v \in Splits PROVE v.done \in Seq(Seq(Symbol)) /\ v.line \in Seq(Symbol)
  <2>1. PICK done \in Seq(Seq(Symbol)), line \in Seq(Symbol) : v = SplitSoFar(done, line)
    BY DEF Splits
  <2>. QED BY <1>1, <2>1
<1>4. <<>> \in Seq(Symbol) /\ <<>> \in Seq(Seq(Symbol))
  BY EmptyFacts
<1>. QED BY <1>1, <1>2, <1>3, <1>4

(* How a reader of lines takes up a symbol.                                *)
LEMMA SplitStepFacts ==
  \A v \in Splits : \A c \in Symbol :
    /\ SplitStep[<<v, c>>] = IF c = "\n" THEN SplitSoFar(Append(v.done, v.line), <<>>)
                             ELSE SplitSoFar(v.done, Append(v.line, c))
    /\ SplitStep[<<v, c>>] \in Splits
<1>1. ASSUME NEW v \in Splits, NEW c \in Symbol
      PROVE  SplitStep[<<v, c>>] = IF c = "\n" THEN SplitSoFar(Append(v.done, v.line), <<>>)
                                   ELSE SplitSoFar(v.done, Append(v.line, c))
  BY DEF SplitStep
<1>2. ASSUME NEW v \in Splits, NEW c \in Symbol
      PROVE  SplitStep[<<v, c>>] \in Splits
  <2>1. PICK done, line : done = v.done /\ line = v.line
    OBVIOUS
  <2>2. done \in Seq(Seq(Symbol)) /\ line \in Seq(Symbol)
    BY <2>1, SplitsFacts
  <2>3. /\ Append(done, line) \in Seq(Seq(Symbol)) /\ Append(line, c) \in Seq(Symbol)
        /\ <<>> \in Seq(Symbol)
    BY <2>2, AppendFacts, EmptyFacts
  <2>4. /\ SplitSoFar(Append(done, line), <<>>) \in Splits
        /\ SplitSoFar(done, Append(line, c)) \in Splits
    BY <2>2, <2>3, SplitsFacts
  <2>. QED BY <1>1, <2>1, <2>4
<1>. QED BY <1>1, <1>2

(* A text is split by taking its symbols one after the other.              *)
LEMMA SplitRuns ==
  ASSUME NEW text \in Seq(Symbol)
  PROVE  \E f : IsRun(f, SplitSoFar(<<>>, <<>>), SplitStep, text, Splits) /\ Split(text) = f[Len(text)]
<1>. DEFINE n == Len(text)
            T == Splits
            Step(v, c) == IF c = "\n" THEN SplitSoFar(Append(v.done, v.line), <<>>)
                          ELSE SplitSoFar(v.done, Append(v.line, c))
            g == [p \in (1 .. n) \X T |-> SplitStep[<<p[2], text[p[1]]>>]]
            Eq(h) == h = [s \in SUBSET (1 .. n) |-> IF s = {} THEN SplitSoFar(<<>>, <<>>)
                            ELSE Step(h[s \ {Max(s)}], text[Max(s)])]
            iter == CHOOSE h : Eq(h)
            f == [i \in 0 .. n |-> iter[1 .. i]]
<1>1. n \in Nat /\ DOMAIN text = 1 .. n /\ \A i \in 1 .. n : text[i] \in Symbol
  OBVIOUS
<1>2. Split(text) = iter[1 .. n]
  BY <1>1 DEF Split, FoldLeft, MapThenFoldSet
<1>3. \A v \in T : \A c \in Symbol :
        SplitStep[<<v, c>>] = Step(v, c) /\ SplitStep[<<v, c>>] \in T
  BY SplitStepFacts
<1>. HIDE DEF Step, T
<1>4. \A i \in 1 .. n : \A v \in T : g[<<i, v>>] = Step(v, text[i]) /\ g[<<i, v>>] \in T
  BY <1>1, <1>3
<1>. HIDE DEF g
<1>5. PICK it \in [SUBSET (1 .. n) -> T] : IsLeftFold(it, SplitSoFar(<<>>, <<>>), g, n)
  <2>1. IsStep(g, 1 .. n, T)
    BY <1>4 DEF IsStep
  <2>2. SplitSoFar(<<>>, <<>>) \in T
    BY SplitsFacts DEF T
  <2>. QED BY <1>1, <2>1, <2>2, LeftFoldExists
<1>6. Eq(it)
  BY <1>4, <1>5 DEF IsLeftFold
<1>7. Eq(iter)
  <2>. HIDE DEF Eq
  <2>. QED BY <1>6
<1>. HIDE DEF iter
<1>8. f[0] = SplitSoFar(<<>>, <<>>)
  <2>1. 1 .. 0 = {} /\ 0 \in 0 .. n
    BY <1>1
  <2>. QED BY <1>7, <2>1
<1>9. ASSUME NEW i \in 1 .. n, f[i - 1] \in T
      PROVE  f[i] = SplitStep[<<f[i - 1], text[i]>>]
  <2>1. /\ i \in 0 .. n /\ i - 1 \in 0 .. n
        /\ 1 .. i \in SUBSET (1 .. n) /\ 1 .. i # {}
        /\ Max(1 .. i) = i /\ (1 .. i) \ {i} = 1 .. (i - 1)
    BY <1>1, MaxOfInterval
  <2>2. f[i] = Step(f[i - 1], text[i])
    BY <1>7, <2>1
  <2>. QED BY <1>1, <1>3, <1>9, <2>2
<1>10. Split(text) = f[n]
  BY <1>1, <1>2
<1>. HIDE DEF f
<1>. QED BY <1>8, <1>9, <1>10 DEF IsRun, T

(* A newline ends the line, any other symbol makes it longer.              *)
LEMMA SplitAppended ==
  ASSUME NEW text \in Seq(Symbol), NEW c \in Symbol
  PROVE  /\ Split(<<>>) = SplitSoFar(<<>>, <<>>)
         /\ Split(Append(text, c)) =
              IF c = "\n" THEN SplitSoFar(Append(Split(text).done, Split(text).line), <<>>)
              ELSE SplitSoFar(Split(text).done, Append(Split(text).line, c))
<1>1. <<>> \in Seq(Symbol) /\ Len(<<>>) = 0 /\ Append(text, c) \in Seq(Symbol)
  BY EmptyFacts, AppendFacts
<1>2. Split(<<>>) = SplitSoFar(<<>>, <<>>)
  <2>1. PICK f : /\ IsRun(f, SplitSoFar(<<>>, <<>>), SplitStep, <<>>, Splits)
                 /\ Split(<<>>) = f[Len(<<>>)]
    BY <1>1, SplitRuns
  <2>. QED BY <1>1, <2>1 DEF IsRun
<1>3. PICK f : /\ IsRun(f, SplitSoFar(<<>>, <<>>), SplitStep, text, Splits)
               /\ Split(text) = f[Len(text)]
  BY SplitRuns
<1>4. PICK h : /\ IsRun(h, SplitSoFar(<<>>, <<>>), SplitStep, Append(text, c), Splits)
               /\ Split(Append(text, c)) = h[Len(Append(text, c))]
  BY <1>1, SplitRuns
<1>5. h[Len(Append(text, c))] = SplitStep[<<f[Len(text)], c>>] /\ f[Len(text)] \in Splits
  <2>1. PICK b, g : b = SplitSoFar(<<>>, <<>>) /\ g = SplitStep
    OBVIOUS
  <2>2. b \in Splits /\ \A v \in Splits : \A x \in Symbol : g[<<v, x>>] \in Splits
    BY <2>1, SplitStepFacts, SplitsFacts
  <2>3. IsRun(f, b, g, text, Splits) /\ IsRun(h, b, g, Append(text, c), Splits)
    BY <1>3, <1>4, <2>1
  <2>4. h[Len(text) + 1] = g[<<f[Len(text)], c>>]
    BY <2>2, <2>3, RunAppended
  <2>5. \A i \in 0 .. Len(text) : f[i] \in Splits
    BY <2>2, <2>3, RunStays
  <2>6. Len(Append(text, c)) = Len(text) + 1 /\ Len(text) \in 0 .. Len(text)
    BY AppendFacts
  <2>. QED BY <2>1, <2>4, <2>5, <2>6
<1>. QED BY <1>2, <1>3, <1>4, <1>5, SplitStepFacts

(* A text with no newline that follows one is read as one more line.       *)
LEMMA SplitLine ==
  ASSUME NEW text \in Seq(Symbol), NEW line \in Seq(Symbol), "\n" \notin Range(line),
         NEW done, Split(text) = SplitSoFar(done, <<>>)
  PROVE  Split(text \o line) = SplitSoFar(done, line)
<1>. DEFINE n == Len(line)
            Prefix(i) == SubSeq(line, 1, i)
            P == {i \in 0 .. n : Split(text \o Prefix(i)) = SplitSoFar(done, Prefix(i))}
<1>1. n \in Nat /\ \A i \in 1 .. n : line[i] \in Symbol /\ line[i] # "\n"
  BY DEF Range
<1>2. Prefix(0) = <<>> /\ Prefix(n) = line
  OBVIOUS
<1>3. \A i \in 0 .. n : Prefix(i) \in Seq(Symbol)
  OBVIOUS
<1>4. \A i \in 0 .. (n - 1) : Prefix(i + 1) = Append(Prefix(i), line[i + 1])
  OBVIOUS
<1>. HIDE DEF Prefix
<1>5. 0 \in P
  <2>1. text \o <<>> = text
    OBVIOUS
  <2>2. PICK none : none = <<>>
    OBVIOUS
  <2>3. Split(text \o none) = SplitSoFar(done, none) /\ Prefix(0) = none
    BY <1>2, <2>1, <2>2
  <2>4. 0 \in 0 .. n
    BY <1>1
  <2>. QED BY <2>3, <2>4, Zenon
<1>6. ASSUME NEW i \in 0 .. (n - 1), i \in P
      PROVE  i + 1 \in P
  <2>1. i \in 0 .. n /\ i + 1 \in 0 .. n /\ i + 1 \in 1 .. n
    BY <1>1
  <2>2. PICK part, c, long : part = Prefix(i) /\ c = line[i + 1] /\ long = text \o part
    OBVIOUS
  <2>3. /\ part \in Seq(Symbol) /\ c \in Symbol /\ c # "\n"
        /\ Prefix(i + 1) = Append(part, c)
    BY <1>1, <1>3, <1>4, <2>1, <2>2
  <2>4. long \in Seq(Symbol) /\ text \o Append(part, c) = Append(long, c)
    BY <2>2, <2>3, ConcatFacts
  <2>5. Split(long).done = done /\ Split(long).line = part
    BY <1>6, <2>2, SplitsFacts
  <2>6. Split(Append(long, c)) = SplitSoFar(done, Append(part, c))
    BY <2>3, <2>4, <2>5, SplitAppended
  <2>. QED BY <2>1, <2>3, <2>4, <2>6
<1>. HIDE DEF P
<1>7. 0 .. n \subseteq P
  BY <1>1, <1>5, <1>6, RangeInduction
<1>8. n \in P
  BY <1>1, <1>7
<1>. QED BY <1>2, <1>8 DEF P

(* The lines that were joined are the lines that are read.                 *)
LEMMA JoinedReadsBack ==
  ASSUME NEW lines \in Seq(Seq(Symbol)),
         \A i \in 1 .. Len(lines) : lines[i] # <<>> /\ "\n" \notin Range(lines[i])
  PROVE  LinesOf(Joined(lines)) = lines
<1>. DEFINE n == Len(lines)
            parts == [i \in DOMAIN lines |-> IF i = 1 THEN lines[1] ELSE <<"\n">> \o lines[i]]
<1>1. n \in Nat /\ DOMAIN lines = 1 .. n /\ \A i \in 1 .. n : lines[i] \in Seq(Symbol)
  OBVIOUS
<1>2. Joined(lines) = FlattenSeq(parts)
  BY DEF Joined
<1>3. /\ parts \in Seq(Seq(Symbol)) /\ Len(parts) = n
      /\ \A i \in 1 .. n : parts[i] = IF i = 1 THEN lines[1] ELSE <<"\n">> \o lines[i]
  <2>1. "\n" \in Symbol
    BY AuditAssumption
  <2>2. ASSUME NEW i \in 1 .. n
        PROVE  (IF i = 1 THEN lines[1] ELSE <<"\n">> \o lines[i]) \in Seq(Symbol)
    <3>1. lines[i] \in Seq(Symbol) /\ lines[1] \in Seq(Symbol)
      BY <1>1
    <3>2. <<"\n">> \in Seq(Symbol)
      BY <2>1
    <3>3. <<"\n">> \o lines[i] \in Seq(Symbol)
      BY <3>1, <3>2, ConcatProperties
    <3>. QED BY <3>1, <3>3
  <2>3. parts = [i \in 1 .. n |-> IF i = 1 THEN lines[1] ELSE <<"\n">> \o lines[i]]
    BY <1>1
  <2>. QED BY <1>1, <2>2, <2>3
<1>. HIDE DEF parts
<1>4. CASE n = 0
  <2>1. lines = <<>> /\ parts = <<>>
    BY <1>3, <1>4
  <2>2. FlattenSeq(parts) = <<>>
    BY <1>3, <1>4, <2>1 DEF FlattenSeq
  <2>. QED BY <1>2, <2>1, <2>2 DEF LinesOf
<1>5. CASE n # 0
  <2>1. PICK f : /\ f[1] = parts[1]
                 /\ \A i \in 2 .. n : f[i] = f[i - 1] \o parts[i]
                 /\ FlattenSeq(parts) = f[n]
    <3>1. parts # <<>>
      BY <1>3, <1>5
    <3>. QED BY <1>3, <3>1, FlattenRuns
  <2>. DEFINE Before(k) == SubSeq(lines, 1, k)
              P == {k \in 0 .. (n - 1) :
                      /\ f[k + 1] \in Seq(Symbol)
                      /\ Split(f[k + 1]) = SplitSoFar(Before(k), lines[k + 1])}
  <2>2. /\ Before(0) = <<>>
        /\ \A k \in 0 .. (n - 1) : /\ Before(k) \in Seq(Seq(Symbol))
                                   /\ Append(Before(k), lines[k + 1]) = Before(k + 1)
        /\ Before(n) = lines
    <3>1. \A k \in 0 .. n : Before(k) \in Seq(Seq(Symbol))
      BY <1>1
    <3>. QED BY <1>1, <3>1
  <2>. HIDE DEF Before
  <2>3. 0 \in P
    <3>1. PICK line, none : line = lines[1] /\ none = <<>>
      OBVIOUS
    <3>2. line \in Seq(Symbol) /\ "\n" \notin Range(line) /\ f[0 + 1] = line
      <4>1. 1 \in 1 .. n /\ 0 + 1 = 1
        BY <1>1, <1>5
      <4>. QED BY <1>1, <1>3, <2>1, <3>1, <4>1
    <3>3. /\ none \in Seq(Symbol) /\ none \o line = line
          /\ Split(none) = SplitSoFar(none, <<>>)
      <4>1. none \in Seq(Symbol) /\ "\n" \in Symbol
        BY <3>1, AuditAssumption, EmptyFacts
      <4>2. Split(none) = SplitSoFar(none, <<>>)
        BY <3>1, <4>1, SplitAppended
      <4>. QED BY <3>1, <3>2, <4>1, <4>2
    <3>4. Split(none \o line) = SplitSoFar(none, line)
      BY <3>2, <3>3, SplitLine
    <3>5. 0 \in 0 .. (n - 1) /\ lines[0 + 1] = line /\ Before(0) = none
      BY <1>1, <1>5, <2>2, <3>1
    <3>. QED BY <3>2, <3>3, <3>4, <3>5
  <2>4. ASSUME NEW k \in 0 .. ((n - 1) - 1), k \in P
        PROVE  k + 1 \in P
    <3>1. /\ k \in 0 .. (n - 1) /\ k + 1 \in 0 .. (n - 1) /\ (k + 1) + 1 \in 2 .. n
          /\ (k + 1) + 1 \in 1 .. n /\ ((k + 1) + 1) - 1 = k + 1 /\ (k + 1) + 1 # 1
      BY <1>1
    <3>2. PICK text, line, next : text = f[k + 1] /\ line = lines[(k + 1) + 1] /\ next = f[(k + 1) + 1]
      OBVIOUS
    <3>3. line \in Seq(Symbol) /\ "\n" \notin Range(line) /\ text \in Seq(Symbol)
      BY <1>1, <2>4, <3>1, <3>2
    <3>4. next = text \o (<<"\n">> \o line)
      BY <1>3, <2>1, <3>1, <3>2
    <3>5. PICK ended : ended = Append(text, "\n")
      OBVIOUS
    <3>6. "\n" \in Symbol /\ ended \in Seq(Symbol) /\ next = ended \o line
      <4>1. "\n" \in Symbol
        BY AuditAssumption
      <4>2. PICK nl : nl = <<"\n">>
        OBVIOUS
      <4>3. nl \in Seq(Symbol) /\ ended = text \o nl /\ next = text \o (nl \o line)
        BY <3>3, <3>4, <3>5, <4>1, <4>2, AppendIsConcat
      <4>4. (text \o nl) \o line = text \o (nl \o line)
        <5>1. text \in Seq(Symbol) /\ nl \in Seq(Symbol) /\ line \in Seq(Symbol)
          BY <3>3, <4>3
        <5>. QED BY ONLY <5>1
      <4>5. ended \in Seq(Symbol)
        BY <3>3, <3>5, <4>1, AppendFacts
      <4>. QED BY ONLY <4>1, <4>3, <4>4, <4>5
    <3>7. Split(ended) = SplitSoFar(Before(k + 1), <<>>)
      <4>1. Split(text).done = Before(k) /\ Split(text).line = lines[k + 1]
        BY <2>4, <3>2, SplitsFacts
      <4>. QED BY <2>2, <3>1, <3>3, <3>5, <3>6, <4>1, SplitAppended
    <3>8. PICK done : done = Before(k + 1)
      OBVIOUS
    <3>9. Split(ended \o line) = SplitSoFar(done, line) /\ ended \o line \in Seq(Symbol)
      <4>1. Split(ended \o line) = SplitSoFar(done, line)
        BY <3>3, <3>6, <3>7, <3>8, SplitLine
      <4>. QED BY <3>3, <3>6, <4>1, ConcatProperties
    <3>. QED BY <3>1, <3>2, <3>6, <3>8, <3>9
  <2>. HIDE DEF P
  <2>5. n - 1 \in P
    <3>1. n - 1 \in Nat
      BY <1>1, <1>5
    <3>2. 0 .. (n - 1) \subseteq P
      BY <2>3, <2>4, <3>1, RangeInduction
    <3>. QED BY <3>1, <3>2
  <2>6. PICK text, line, before :
          text = Joined(lines) /\ line = lines[n] /\ before = Before(n - 1)
    OBVIOUS
  <2>7. Split(text) = SplitSoFar(before, line) /\ Append(before, line) = lines
    <3>1. (n - 1) + 1 = n /\ n - 1 \in 0 .. (n - 1)
      BY <1>1, <1>5
    <3>2. Split(f[n]) = SplitSoFar(Before(n - 1), lines[n])
      BY <2>5, <3>1 DEF P
    <3>3. Append(Before(n - 1), lines[n]) = Before(n)
      BY <2>2, <3>1
    <3>. QED BY <1>2, <2>1, <2>2, <2>6, <3>2, <3>3
  <2>8. text # <<>>
    <3>1. Split(<<>>).line = <<>>
      <4>1. <<>> \in Seq(Symbol) /\ "\n" \in Symbol
        BY AuditAssumption, EmptyFacts
      <4>. QED BY <4>1, SplitAppended, SplitsFacts
    <3>2. Split(text).line = line /\ line # <<>>
      BY <1>1, <1>5, <2>6, <2>7, SplitsFacts
    <3>. QED BY <3>1, <3>2
  <2>9. Split(text).done = before /\ Split(text).line = line
    BY <2>7, SplitsFacts
  <2>. QED BY <2>6, <2>7, <2>8, <2>9 DEF LinesOf
<1>. QED BY <1>4, <1>5

(* A SIEM reads from the CEF export the actors of the JSON export, whatever *)
(* backslashes, equal signs and bars their names have; as long as none has *)
(* a newline, which would end its line.                                    *)
THEOREM CefKeepsActors == Spec => []CefLosesNothing
<1>1. AuditInv => CefLosesNothing
  <2>. SUFFICES ASSUME AuditInv,
                       \A entry \in ToSet(Export(NoFilter)) : "\n" \notin ToSet(entry.actor_id)
                PROVE  /\ Len(LinesOf(ExportCef(NoFilter))) = Len(Export(NoFilter))
                       /\ \A i \in DOMAIN Export(NoFilter) :
                            Unescaped(Tail(LinesOf(ExportCef(NoFilter))[i]))
                              = Export(NoFilter)[i].actor_id
    BY DEF CefLosesNothing
  <2>1. PICK json : json = Export(NoFilter)
    OBVIOUS
  <2>2. json \in Seq(AuditEntry)
    BY <2>1, MatchingFacts DEF AuditInv, AuditTyped, Export
  <2>3. PICK lines : lines = [i \in DOMAIN json |-> ToCef(json[i])]
    OBVIOUS
  <2>4. DOMAIN json = 1 .. Len(json) /\ Len(lines) = Len(json)
    BY <2>2, <2>3
  <2>5. ASSUME NEW i \in DOMAIN json
        PROVE  /\ json[i].actor_id \in Seq(Symbol)
               /\ lines[i] = <<Header>> \o Esc(json[i].actor_id)
               /\ Esc(json[i].actor_id) \in Seq(Symbol)
               /\ lines[i] \in Seq(Symbol) /\ lines[i] # <<>>
               /\ "\n" \notin Range(lines[i])
    <3>1. PICK actor : actor = json[i].actor_id
      OBVIOUS
    <3>2. actor \in Seq(Symbol) /\ "\n" \notin Range(actor)
      <4>1. json[i] \in AuditEntry /\ json[i] \in ToSet(json)
        BY <2>2 DEF ToSet
      <4>2. "\n" \notin ToSet(actor)
        BY <2>1, <3>1, <4>1
      <4>. QED BY <3>1, <4>1, <4>2, AuditAssumption DEF AuditEntry, ToSet, Range
    <3>3. PICK esc : esc = Esc(actor)
      OBVIOUS
    <3>4. esc \in Seq(Symbol) /\ "\n" \notin Range(esc)
      BY <3>2, <3>3, EscKeepsLine
    <3>5. lines[i] = <<Header>> \o esc
      BY <2>3, <3>1, <3>3 DEF ToCef
    <3>6. Header \in Symbol /\ Header # "\n"
      BY AuditAssumption
    <3>7. PICK line : line = <<Header>> \o esc
      OBVIOUS
    <3>8. /\ line \in Seq(Symbol) /\ Len(line) = Len(esc) + 1 /\ line[1] = Header
          /\ \A j \in 1 .. Len(esc) : line[j + 1] = esc[j]
      <4>1. <<Header>> \in Seq(Symbol)
        BY <3>6
      <4>. QED BY <3>4, <3>6, <3>7, <4>1, ConcatFacts, ConcatProperties
    <3>9. line # <<>>
      BY <3>4, <3>8
    <3>10. ASSUME NEW j \in DOMAIN line PROVE line[j] # "\n"
      <4>1. j \in 1 .. (Len(esc) + 1) /\ Len(esc) \in Nat
        BY <3>4, <3>8
      <4>2. CASE j = 1
        BY <3>6, <3>8, <4>2
      <4>3. CASE j # 1
        <5>1. j - 1 \in 1 .. Len(esc) /\ (j - 1) + 1 = j
          BY <4>1, <4>3
        <5>2. line[j] = esc[j - 1] /\ j - 1 \in DOMAIN esc
          BY <3>4, <3>8, <5>1
        <5>. QED BY <3>4, <5>2 DEF Range
      <4>. QED BY <4>2, <4>3
    <3>11. "\n" \notin Range(line)
      BY <3>10 DEF Range
    <3>. QED BY <3>1, <3>2, <3>3, <3>4, <3>5, <3>7, <3>8, <3>9, <3>11
  <2>6. lines \in Seq(Seq(Symbol))
    <3>1. lines = [i \in 1 .. Len(json) |-> lines[i]]
      BY <2>3, <2>4
    <3>. QED BY <2>2, <2>4, <2>5, <3>1
  <2>7. LinesOf(Joined(lines)) = lines
    BY <2>4, <2>5, <2>6, JoinedReadsBack
  <2>8. ExportCef(NoFilter) = Joined(lines)
    BY <2>1, <2>3 DEF ExportCef
  <2>9. ASSUME NEW i \in DOMAIN json
        PROVE  Unescaped(Tail(lines[i])) = json[i].actor_id
    <3>1. PICK actor, esc : actor = json[i].actor_id /\ esc = Esc(actor)
      OBVIOUS
    <3>2. /\ actor \in Seq(Symbol) /\ esc \in Seq(Symbol)
          /\ lines[i] = <<Header>> \o esc
      BY <2>5, <3>1
    <3>3. Tail(<<Header>> \o esc) = esc
      BY <3>2, AuditAssumption
    <3>. QED BY <3>1, <3>2, <3>3, EscReadsBack
  <2>. QED BY <2>1, <2>4, <2>7, <2>8, <2>9
<1>. QED BY <1>1, AuditInvHolds, PTL
=============================================================================
