--------------------------- MODULE CircuitBreaker ---------------------------
(***************************************************************************)
(* The circuit breaker and the retry loop of backend/app/utils/resilience. *)
(* Every database commit and every object-storage request of the backend  *)
(* runs as breaker.call(retry_operation(func)): the retry loop is inside   *)
(* the guarded call, so one call that gives up is one breaker failure,     *)
(* however many attempts it made.                                          *)
(*                                                                         *)
(* The breaker is shared by the threads of a process.  Its lock covers the *)
(* admission and the bookkeeping after the call, never the call itself:    *)
(* admitted calls overlap, and each finishes against whatever state the    *)
(* others have left behind.                                                *)
(***************************************************************************)
EXTENDS Integers

CONSTANTS
    Callers,            \* threads that use the breaker
    FailureThreshold,   \* failed calls in a row that open it
    RecoveryTimeout,    \* time an open breaker rejects calls for
    MaxAttempts,        \* attempts of the retry loop
    MaxTime,            \* bound: the clock stops here
    MaxFailures         \* bound: no call starts at or above this count

ASSUME ThresholdAssumption == FailureThreshold \in Nat \ {0}
ASSUME AttemptsAssumption == MaxAttempts \in Nat \ {0}
ASSUME TimeAssumption == RecoveryTimeout \in Nat /\ MaxTime \in Nat
ASSUME FailuresAssumption == MaxFailures \in Nat

VARIABLES
    now,            \* time.monotonic()
    state,          \* self.state
    failureCount,   \* self.failure_count
    reopenedAt,     \* self._reopened_at
    attempt,        \* per thread: number of the attempt under way, 0 when idle
    admittedAt      \* per thread: the local "now" its last call was admitted at

vars == <<now, state, failureCount, reopenedAt, attempt, admittedAt>>

Never == -1
Time == 0..MaxTime

Init ==
    /\ now = 0
    /\ state = "closed"
    /\ failureCount = 0
    /\ reopenedAt = Never
    /\ attempt = [c \in Callers |-> 0]
    /\ admittedAt = [c \in Callers |-> 0]

(***************************************************************************)
(* CircuitBreaker.call: admission, under the lock.                         *)
(***************************************************************************)
Idle(c) == attempt[c] = 0

\* Defect: the recovery timeout is not looked at.
CoolingForEver == state = "open" /\ reopenedAt # Never

Cooling ==
    /\ state = "open"
    /\ reopenedAt # Never
    /\ now < reopenedAt + RecoveryTimeout

\* The caller gets a RuntimeError and the function is not run.
Reject(c) ==
    /\ Idle(c)
    /\ Cooling
    /\ UNCHANGED vars

Admit(c) ==
    /\ Idle(c)
    /\ ~Cooling
    /\ failureCount < MaxFailures
    /\ now + RecoveryTimeout <= MaxTime
    /\ state' = IF state = "open" THEN "half_open" ELSE state
    /\ attempt' = [attempt EXCEPT ![c] = 1]
    /\ admittedAt' = [admittedAt EXCEPT ![c] = now]
    /\ UNCHANGED <<now, failureCount, reopenedAt>>

(***************************************************************************)
(* The guarded function: retry_operation around one request.               *)
(***************************************************************************)

\* Defect: the loop counts one attempt too many.
RetryOnceTooOften(c) ==
    /\ attempt[c] \in 1..MaxAttempts
    /\ attempt' = [attempt EXCEPT ![c] = @ + 1]
    /\ UNCHANGED <<now, state, failureCount, reopenedAt, admittedAt>>

\* Defect: the loop starts over instead of giving up.
RetryWithoutEnd(c) ==
    /\ attempt[c] \in 1..MaxAttempts
    /\ attempt' = [attempt EXCEPT ![c] = (@ % MaxAttempts) + 1]
    /\ UNCHANGED <<now, state, failureCount, reopenedAt, admittedAt>>

RetryAfterFailure(c) ==
    /\ attempt[c] \in 1..(MaxAttempts - 1)
    /\ attempt' = [attempt EXCEPT ![c] = @ + 1]
    /\ UNCHANGED <<now, state, failureCount, reopenedAt, admittedAt>>

(***************************************************************************)
(* The last attempt failed: the exception leaves the retry loop and the    *)
(* breaker counts it.  _reopened_at is the time of the admission, not of   *)
(* the failure.                                                            *)
(***************************************************************************)

\* Defect: the time the cooling ends is stored, and the timeout added again.
CallFailsTwiceAsLong(c) ==
    /\ attempt[c] = MaxAttempts
    /\ failureCount' = failureCount + 1
    /\ IF failureCount' >= FailureThreshold
       THEN state' = "open" /\ reopenedAt' = now + RecoveryTimeout
       ELSE UNCHANGED <<state, reopenedAt>>
    /\ attempt' = [attempt EXCEPT ![c] = 0]
    /\ UNCHANGED <<now, admittedAt>>

\* Defect: only the failure that reaches the threshold opens the breaker.
CallFailsAtThreshold(c) ==
    /\ attempt[c] = MaxAttempts
    /\ failureCount' = failureCount + 1
    /\ IF failureCount' = FailureThreshold
       THEN state' = "open" /\ reopenedAt' = admittedAt[c]
       ELSE UNCHANGED <<state, reopenedAt>>
    /\ attempt' = [attempt EXCEPT ![c] = 0]
    /\ UNCHANGED <<now, admittedAt>>

CallFails(c) ==
    /\ attempt[c] = MaxAttempts
    /\ failureCount' = failureCount + 1
    /\ IF failureCount' >= FailureThreshold
       THEN state' = "open" /\ reopenedAt' = admittedAt[c]
       ELSE UNCHANGED <<state, reopenedAt>>
    /\ attempt' = [attempt EXCEPT ![c] = 0]
    /\ UNCHANGED <<now, admittedAt>>

\* Defect: success closes the breaker and keeps the count.
CallSucceedsKeepingCount(c) ==
    /\ attempt[c] \in 1..MaxAttempts
    /\ state' = "closed"
    /\ reopenedAt' = Never
    /\ attempt' = [attempt EXCEPT ![c] = 0]
    /\ UNCHANGED <<now, failureCount, admittedAt>>

\* Any attempt may succeed, and closes the breaker whatever its state is.
CallSucceeds(c) ==
    /\ attempt[c] \in 1..MaxAttempts
    /\ failureCount' = 0
    /\ state' = "closed"
    /\ reopenedAt' = Never
    /\ attempt' = [attempt EXCEPT ![c] = 0]
    /\ UNCHANGED <<now, admittedAt>>

Tick ==
    /\ now < MaxTime
    /\ now' = now + 1
    /\ UNCHANGED <<state, failureCount, reopenedAt, attempt, admittedAt>>

Finish(c) == RetryAfterFailure(c) \/ CallFails(c) \/ CallSucceeds(c)

Next ==
    \/ Tick
    \/ \E c \in Callers : Reject(c) \/ Admit(c) \/ Finish(c)

Spec == Init /\ [][Next]_vars

(***************************************************************************)
(* Time passes and the driver's timeouts end every attempt; nothing obliges *)
(* a thread to make a call.                                                *)
(***************************************************************************)
FairSpec ==
    /\ Spec
    /\ WF_vars(Tick)
    /\ \A c \in Callers : WF_vars(Finish(c))

(***************************************************************************)
(* Properties                                                              *)
(***************************************************************************)

\* Every variable of the breaker and of its callers keeps its type.
TypeOK ==
    /\ now \in Time
    /\ state \in {"closed", "open", "half_open"}
    /\ failureCount \in Nat
    /\ reopenedAt \in Time \cup {Never}
    /\ attempt \in [Callers -> 0..MaxAttempts]
    /\ admittedAt \in [Callers -> Time]

\* The three fields are written by overlapping calls, yet always agree: a
\* closed breaker is below the threshold and has no reopening time, and one
\* that opened keeps a full count and the time its cooling is measured from.
StateMatchesCount ==
    IF state = "closed"
    THEN failureCount < FailureThreshold /\ reopenedAt = Never
    ELSE failureCount >= FailureThreshold /\ reopenedAt # Never

\* Cooling is never measured from the future, nor from a call that is still
\* waiting to be admitted: both times it is computed from have passed.
CoolingStartsInThePast ==
    /\ reopenedAt <= now
    /\ \A c \in Callers : admittedAt[c] <= now

\* A probe that fails puts the breaker back to open at once, whatever other
\* calls did meanwhile; it is never left half open with its failure counted.
FailedProbeReopens ==
    [][(state = "half_open" /\ failureCount' > failureCount) => state' = "open"]_vars

\* A call that was admitted ends: the retry loop gives up after MaxAttempts.
CallsReturn == \A c \in Callers : ~Idle(c) ~> Idle(c)

\* An open breaker does not reject for ever: the cooling period ends even if
\* calls admitted earlier keep failing and move the reopening time meanwhile.
CoolingEnds == Cooling ~> ~Cooling
=============================================================================
