------------------------ MODULE CircuitBreakerProofs ------------------------
(***************************************************************************)
(* Proofs about CircuitBreaker for any number of callers and any values of *)
(* its parameters.                                                         *)
(***************************************************************************)
EXTENDS CircuitBreaker, TLAPS

(***************************************************************************)
(* The inductive invariant: types, the agreement of the breaker's fields,  *)
(* and that every recorded time has passed.  The last conjunct is needed   *)
(* because reopenedAt is copied from admittedAt.                           *)
(***************************************************************************)
BreakerInv == TypeOK /\ StateMatchesCount /\ CoolingStartsInThePast

LEMMA BreakerInvInit == Init => BreakerInv
BY ThresholdAssumption, AttemptsAssumption, TimeAssumption
   DEF Init, BreakerInv, TypeOK, StateMatchesCount, CoolingStartsInThePast,
       Time, Never

LEMMA BreakerInvStep == BreakerInv /\ [Next]_vars => BreakerInv'
<1> USE ThresholdAssumption, AttemptsAssumption, TimeAssumption, FailuresAssumption
        DEF BreakerInv, TypeOK, StateMatchesCount, CoolingStartsInThePast,
            Time, Never
<1> SUFFICES ASSUME BreakerInv, [Next]_vars
             PROVE  BreakerInv'
  OBVIOUS
<1>1. CASE Tick
  BY <1>1 DEF Tick
<1>2. ASSUME NEW c \in Callers, Reject(c)
      PROVE  BreakerInv'
  BY <1>2 DEF Reject, vars
<1>3. ASSUME NEW c \in Callers, Admit(c)
      PROVE  BreakerInv'
  BY <1>3 DEF Admit, Cooling, Idle
<1>4. ASSUME NEW c \in Callers, RetryAfterFailure(c)
      PROVE  BreakerInv'
  BY <1>4 DEF RetryAfterFailure
<1>5. ASSUME NEW c \in Callers, CallFails(c)
      PROVE  BreakerInv'
  <2>1. CASE failureCount + 1 >= FailureThreshold
    BY <1>5, <2>1 DEF CallFails
  <2>2. CASE failureCount + 1 < FailureThreshold
    BY <1>5, <2>2 DEF CallFails
  <2>3. QED
    BY <2>1, <2>2
<1>6. ASSUME NEW c \in Callers, CallSucceeds(c)
      PROVE  BreakerInv'
  BY <1>6 DEF CallSucceeds
<1>7. CASE UNCHANGED vars
  BY <1>7 DEF vars
<1>8. QED
  BY <1>1, <1>2, <1>3, <1>4, <1>5, <1>6, <1>7 DEF Next, Finish

LEMMA BreakerInvariant == Spec => []BreakerInv
BY BreakerInvInit, BreakerInvStep, PTL DEF Spec

\* Type correctness of the breaker.
THEOREM BreakerTypeCorrect == Spec => []TypeOK
<1>1. BreakerInv => TypeOK
  BY DEF BreakerInv
<1>2. QED
  BY BreakerInvariant, <1>1, PTL

\* However many calls overlap, the breaker's state, its count and its
\* reopening time agree.
THEOREM BreakerStateMatchesCount == Spec => []StateMatchesCount
<1>1. BreakerInv => StateMatchesCount
  BY DEF BreakerInv
<1>2. QED
  BY BreakerInvariant, <1>1, PTL

\* No reopening time lies in the future, so the cooling period of an open
\* breaker is over at the latest RecoveryTimeout after now.
THEOREM BreakerCoolingStartsInThePast == Spec => []CoolingStartsInThePast
<1>1. BreakerInv => CoolingStartsInThePast
  BY DEF BreakerInv
<1>2. QED
  BY BreakerInvariant, <1>1, PTL

\* A failed probe reopens the breaker at once: in a half-open breaker the
\* count is already at the threshold, so one more failure is enough.
THEOREM ProbeFailureReopens == Spec => FailedProbeReopens
<1>1. BreakerInv /\ [Next]_vars
        => [(state = "half_open" /\ failureCount' > failureCount)
              => state' = "open"]_vars
  <2> SUFFICES ASSUME BreakerInv, Next, state = "half_open",
                      failureCount' > failureCount
               PROVE  state' = "open"
    OBVIOUS
  <2> USE ThresholdAssumption DEF BreakerInv, TypeOK, StateMatchesCount
  <2>1. ASSUME NEW c \in Callers, CallFails(c)
        PROVE  state' = "open"
    BY <2>1 DEF CallFails
  <2>2. ASSUME NEW c \in Callers, CallSucceeds(c)
        PROVE  FALSE
    BY <2>2 DEF CallSucceeds
  <2>3. ASSUME NEW c \in Callers, Reject(c) \/ Admit(c) \/ RetryAfterFailure(c)
        PROVE  FALSE
    BY <2>3 DEF Reject, Admit, RetryAfterFailure, vars
  <2>4. CASE Tick
    BY <2>4 DEF Tick
  <2>5. QED
    BY <2>1, <2>2, <2>3, <2>4 DEF Next, Finish
<1>2. QED
  BY BreakerInvariant, <1>1, PTL DEF Spec, FailedProbeReopens
=============================================================================
