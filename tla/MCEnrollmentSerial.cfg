\* One request at a time and no failures: the interface keeps its promise.
CONSTANTS
    Handlers = {h1}
    Employees = {e1, e2}
    Tokens = {t1}
    Ops = {"create", "update", "delete", "restore", "enroll", "samples", "issue", "status", "complete", "revoke"}
    SessionTTL = 1
    MaxTime = 2
    Faulty = FALSE
SPECIFICATION Spec
INVARIANT InactiveHasNoFace
PROPERTY KeepsPromise
CHECK_DEADLOCK FALSE
