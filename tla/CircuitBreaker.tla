--------------------------- MODULE CircuitBreaker ---------------------------
(***************************************************************************)
(* The circuit breaker (core/resilience/circuit_breaker.py) under          *)
(* concurrent callers.  Every section under the asyncio lock runs without  *)
(* suspending, so it is one step; the protected function is awaited        *)
(* outside the lock, and the results of overlapping calls come back in any *)
(* order.  The counters of `stats` only feed reports and are left out.     *)
(***************************************************************************)
EXTENDS Integers

CONSTANTS
  Caller,            \* tasks that use the breaker
  failure_threshold,
  recovery_timeout,  \* in ticks of the clock
  half_open_max_calls,
  MaxFailures,       \* bound: no failure ends at this failure_count ...
  MaxProbes          \* bound: ... and no call starts at this half_open_calls

ASSUME BreakerAssumption ==
  /\ failure_threshold \in Nat \ {0}
  /\ recovery_timeout \in Nat
  /\ half_open_max_calls \in Nat \ {0}
  /\ MaxFailures \in Nat
  /\ MaxProbes \in Nat

VARIABLES
  state,
  failure_count,
  half_open_calls,
  elapsed,    \* time since last_failure_time, up to recovery_timeout
  running     \* callers that await the protected function

vars == <<state, failure_count, half_open_calls, elapsed, running>>

\* last_failure_time is 0 on the monotonic clock: long ago.
Init ==
  /\ state = "CLOSED"
  /\ failure_count = 0
  /\ half_open_calls = 0
  /\ elapsed = recovery_timeout
  /\ running = {}

\* Fault: the probe is let through one tick early.
ExpiredEarly == elapsed + 1 >= recovery_timeout

\* What _maybe_transition makes of the state.
Expired == elapsed >= recovery_timeout

AdmissionState == IF state = "OPEN" /\ Expired THEN "HALF_OPEN" ELSE state

\* Fault: the count of probes is cleared after the first one is counted.
AdmitThenClear(c) ==
  /\ c \notin running
  /\ AdmissionState # "OPEN"
  /\ state = "HALF_OPEN" => half_open_calls < MaxProbes
  /\ state' = AdmissionState
  /\ half_open_calls' = IF state = "HALF_OPEN" THEN half_open_calls + 1 ELSE 0
  /\ running' = running \cup {c}
  /\ UNCHANGED <<failure_count, elapsed>>

(* call() up to the await.  half_open_calls counts the probes and is       *)
(* compared with nothing.                                                  *)
Admit(c) ==
  /\ c \notin running
  /\ AdmissionState # "OPEN"
  /\ state = "HALF_OPEN" => half_open_calls < MaxProbes
  /\ state' = AdmissionState
  /\ half_open_calls' = (IF state = "OPEN" THEN 0 ELSE half_open_calls)
                          + (IF state' = "HALF_OPEN" THEN 1 ELSE 0)
  /\ running' = running \cup {c}
  /\ UNCHANGED <<failure_count, elapsed>>

\* Fault: a rejected call is taken for a failure of the service.
RejectAsFailure(c) ==
  /\ c \notin running
  /\ AdmissionState = "OPEN"
  /\ elapsed' = 0
  /\ UNCHANGED <<state, failure_count, half_open_calls, running>>

\* CircuitOpenError: nothing but a counter of stats changes.
Reject(c) ==
  /\ c \notin running
  /\ AdmissionState = "OPEN"
  /\ UNCHANGED vars

\* Fault: a success gives one failure back instead of clearing the count.
OnSuccessLeaks(c) ==
  /\ c \in running
  /\ running' = running \ {c}
  /\ \/ /\ state \in {"HALF_OPEN", "CLOSED"}
        /\ state' = "CLOSED"
        /\ failure_count' = failure_count - 1
     \/ /\ state = "OPEN"
        /\ UNCHANGED <<state, failure_count>>
  /\ UNCHANGED <<half_open_calls, elapsed>>

(* _on_success: ignored when the circuit is OPEN.                          *)
OnSuccess(c) ==
  /\ c \in running
  /\ running' = running \ {c}
  /\ \/ /\ state \in {"HALF_OPEN", "CLOSED"}
        /\ state' = "CLOSED"
        /\ failure_count' = 0
     \/ /\ state = "OPEN"
        /\ UNCHANGED <<state, failure_count>>
  /\ UNCHANGED <<half_open_calls, elapsed>>

\* Fault: one failure too many is allowed.
TripsLate(count) ==
  \/ state = "HALF_OPEN"
  \/ state = "CLOSED" /\ count > failure_threshold

Trips(count) ==
  \/ state = "HALF_OPEN"
  \/ state = "CLOSED" /\ count >= failure_threshold

(* _on_failure: it counts, and restarts the timeout, in every state.       *)
OnFailure(c) ==
  /\ c \in running
  /\ failure_count < MaxFailures
  /\ running' = running \ {c}
  /\ failure_count' = failure_count + 1
  /\ elapsed' = 0
  /\ state' = IF Trips(failure_count') THEN "OPEN" ELSE state
  /\ UNCHANGED half_open_calls

(* The call is cancelled, or raises what expected_exceptions does not      *)
(* name: neither callback runs.                                            *)
Escape(c) ==
  /\ c \in running
  /\ running' = running \ {c}
  /\ UNCHANGED <<state, failure_count, half_open_calls, elapsed>>

\* The manual reset; calls in progress are not touched.
Reset ==
  /\ state' = "CLOSED"
  /\ failure_count' = 0
  /\ half_open_calls' = 0
  /\ elapsed' = recovery_timeout
  /\ UNCHANGED running

Tick ==
  /\ elapsed < recovery_timeout
  /\ elapsed' = elapsed + 1
  /\ UNCHANGED <<state, failure_count, half_open_calls, running>>

Next ==
  \/ \E c \in Caller :
       Admit(c) \/ Reject(c) \/ OnSuccess(c) \/ OnFailure(c) \/ Escape(c)
  \/ Reset
  \/ Tick

(* Time passes; every caller that is not awaiting calls again, and the     *)
(* protected function ends, whichever way.                                 *)
Fairness ==
  /\ WF_vars(Tick)
  /\ \A c \in Caller :
       /\ WF_vars(Admit(c))
       /\ WF_vars(OnSuccess(c) \/ OnFailure(c) \/ Escape(c))

Spec == Init /\ [][Next]_vars

FairSpec == Spec /\ Fairness

-----------------------------------------------------------------------------
(* Every variable has its type.                                            *)
TypeOK ==
  /\ state \in {"CLOSED", "OPEN", "HALF_OPEN"}
  /\ failure_count \in Nat
  /\ half_open_calls \in Nat
  /\ elapsed \in 0 .. recovery_timeout
  /\ running \subseteq Caller

(* The circuit is CLOSED exactly while failure_count is under the          *)
(* threshold: no late result of a call that was admitted in an earlier     *)
(* state closes it without clearing the count, opens it under the          *)
(* threshold, or leaves it closed over it.                                 *)
ClosedUnderThreshold ==
  state = "CLOSED" <=> failure_count < failure_threshold

(* A circuit that is HALF_OPEN has let a probe through since it was OPEN.  *)
HalfOpenHasProbed ==
  state = "HALF_OPEN" => half_open_calls >= 1

(* A circuit that opens waits a full timeout: while it is OPEN no call     *)
(* starts before recovery_timeout ticks have passed since the last         *)
(* failure, the failure of a call that was already running included.       *)
OpenWaits ==
  [][(state = "OPEN" /\ elapsed < recovery_timeout /\ state' # "OPEN") =>
       (state' = "CLOSED" /\ running' = running)]_vars

(* An OPEN circuit does not stay open for ever, although each late failure *)
(* of a running call restarts its timeout.                                 *)
OpenEndsEventually == state = "OPEN" ~> state # "OPEN"

-----------------------------------------------------------------------------
(* The docstring on HALF_OPEN: "one probe request is allowed through", and *)
(* on half_open_max_calls: "How many probe calls are permitted in          *)
(* HALF_OPEN state before deciding to close or re-open".                   *)
ProbesAreLimited ==
  state = "HALF_OPEN" => half_open_calls <= half_open_max_calls
=============================================================================
