\* Three scans of one employee on two replicas: one can hold a key while
\* another waits for it and a third comes when either has ended, in the same
\* window or the next.
CONSTANTS
    Scans = {s1, s2, s3}
    Replicas = {r1, r2}
    Employees = {e1}
    Objects = {o1}
    Window = 2
    MaxTime = 2
SPECIFICATION FairSpec
INVARIANTS
    TypeOK
    AnsweredIsLogged
    OneEventPerWindow
    RefusedLeavesNoEvent
    EventHasSnapshot
PROPERTY
    ScansEnd
CHECK_DEADLOCK FALSE
