\* Three threads share one breaker, so that a late result of one can meet a
\* breaker opened by the second and probed by the third.
CONSTANTS
    Callers = {c1, c2, c3}
    FailureThreshold = 2
    RecoveryTimeout = 2
    MaxAttempts = 2
    MaxTime = 5
    MaxFailures = 4
SPECIFICATION FairSpec
INVARIANTS
    TypeOK
    StateMatchesCount
    CoolingStartsInThePast
PROPERTIES
    FailedProbeReopens
    CallsReturn
    CoolingEnds
CHECK_DEADLOCK FALSE
