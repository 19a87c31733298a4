------------------------ MODULE CircuitBreakerProofs ------------------------
(***************************************************************************)
(* Proofs about the circuit breaker, for any number of callers and any     *)
(* threshold and timeout.                                                  *)
(***************************************************************************)
EXTENDS CircuitBreaker, TLAPS

\* The conjunction is inductive: that a circuit which is not CLOSED has its
\* count at the threshold is what lets a success of any age clear it.
Inv == TypeOK /\ ClosedUnderThreshold /\ HalfOpenHasProbed

(* The closed breaker with a count of zero satisfies the invariant.        *)
LEMMA InitInv == Init => Inv
BY BreakerAssumption
DEF Init, Inv, TypeOK, ClosedUnderThreshold, HalfOpenHasProbed

(* A call that is let through keeps it, on a closed or a half-open circuit.*)
LEMMA AdmitInv ==
  ASSUME Inv, NEW c \in Caller, Admit(c)
  PROVE  Inv'
<1>. USE BreakerAssumption DEF Inv, TypeOK
<1>1. state' = AdmissionState /\ state' # "OPEN" /\ UNCHANGED <<failure_count, elapsed>>
  BY DEF Admit
<1>2. half_open_calls' \in Nat
  BY DEF Admit
<1>3. TypeOK'
  BY <1>1, <1>2 DEF Admit, AdmissionState
<1>4. ClosedUnderThreshold'
  BY <1>1 DEF ClosedUnderThreshold, AdmissionState
<1>5. HalfOpenHasProbed'
  BY DEF Admit, HalfOpenHasProbed, AdmissionState
<1>. QED BY <1>3, <1>4, <1>5

(* A success closes the circuit and clears the count together.             *)
LEMMA OnSuccessInv ==
  ASSUME Inv, NEW c \in Caller, OnSuccess(c)
  PROVE  Inv'
BY BreakerAssumption
DEF Inv, TypeOK, ClosedUnderThreshold, HalfOpenHasProbed, OnSuccess

(* A failure opens the circuit exactly when the count gets there.          *)
LEMMA OnFailureInv ==
  ASSUME Inv, NEW c \in Caller, OnFailure(c)
  PROVE  Inv'
<1>. USE BreakerAssumption DEF Inv, TypeOK, OnFailure
<1>1. TypeOK'
  OBVIOUS
<1>2. ClosedUnderThreshold'
  BY DEF ClosedUnderThreshold, Trips
<1>3. HalfOpenHasProbed'
  BY DEF HalfOpenHasProbed, Trips
<1>. QED BY <1>1, <1>2, <1>3

(* A manual reset clears both.                                             *)
LEMMA ResetInv ==
  ASSUME Inv, Reset
  PROVE  Inv'
BY BreakerAssumption
DEF Inv, TypeOK, ClosedUnderThreshold, HalfOpenHasProbed, Reset

(* So does every step.                                                     *)
LEMMA NextInv == Inv /\ [Next]_vars => Inv'
<1>. SUFFICES ASSUME Inv, [Next]_vars PROVE Inv'
  OBVIOUS
<1>. USE DEF Inv, TypeOK, ClosedUnderThreshold, HalfOpenHasProbed
<1>1. CASE UNCHANGED vars
  BY <1>1 DEF vars
<1>2. ASSUME NEW c \in Caller, Admit(c) PROVE Inv'
  BY <1>2, AdmitInv
<1>3. ASSUME NEW c \in Caller, Reject(c) PROVE Inv'
  BY <1>1, <1>3 DEF Reject
<1>4. ASSUME NEW c \in Caller, OnSuccess(c) PROVE Inv'
  BY <1>4, OnSuccessInv
<1>5. ASSUME NEW c \in Caller, OnFailure(c) PROVE Inv'
  BY <1>5, OnFailureInv
<1>6. ASSUME NEW c \in Caller, Escape(c) PROVE Inv'
  BY <1>6 DEF Escape
<1>7. CASE Reset
  BY <1>7, ResetInv
<1>8. CASE Tick
  BY <1>8, BreakerAssumption DEF Tick
<1>. QED BY <1>1, <1>2, <1>3, <1>4, <1>5, <1>6, <1>7, <1>8 DEF Next

(* Every variable of the breaker keeps its type.                           *)
THEOREM BreakerTypeCorrect == Spec => []TypeOK
<1>1. Inv => TypeOK
  BY DEF Inv
<1>. QED BY <1>1, InitInv, NextInv, PTL DEF Spec

(* The circuit is CLOSED exactly while the count is under the threshold,   *)
(* for any number of calls whose results come back late.                   *)
THEOREM ClosedIffUnderThreshold == Spec => []ClosedUnderThreshold
<1>1. Inv => ClosedUnderThreshold
  BY DEF Inv
<1>. QED BY <1>1, InitInv, NextInv, PTL DEF Spec

(* A circuit that is HALF_OPEN has let a probe through.                    *)
THEOREM HalfOpenProbed == Spec => []HalfOpenHasProbed
<1>1. Inv => HalfOpenHasProbed
  BY DEF Inv
<1>. QED BY <1>1, InitInv, NextInv, PTL DEF Spec

(* An OPEN circuit admits nothing before its timeout; only the manual      *)
(* reset closes it.                                                        *)
THEOREM OpenCircuitWaits == Spec => OpenWaits
<1>. DEFINE Waits ==
       (state = "OPEN" /\ elapsed < recovery_timeout /\ state' # "OPEN") =>
         (state' = "CLOSED" /\ running' = running)
<1>1. Inv /\ [Next]_vars => [Waits]_vars
  <2>. SUFFICES ASSUME Inv, Next,
                       state = "OPEN", elapsed < recovery_timeout, state' # "OPEN"
                PROVE  state' = "CLOSED" /\ running' = running
    OBVIOUS
  <2>1. elapsed \in Nat /\ recovery_timeout \in Nat
    BY BreakerAssumption DEF Inv, TypeOK
  <2>2. AdmissionState = "OPEN"
    BY <2>1 DEF AdmissionState, Expired
  <2>. QED
    BY <2>2 DEF Next, Admit, Reject, OnSuccess, OnFailure, Trips, Escape, Reset, Tick, vars
<1>. QED BY <1>1, InitInv, NextInv, PTL DEF Spec, OpenWaits
=============================================================================
