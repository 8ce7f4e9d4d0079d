\* Two requests interleave, commits fail and processes die.  No
\* operation restores: a delete that overlaps one leaves the row mixed.
CONSTANTS
    Handlers = {h1, h2}
    Employees = {e1, e2}
    Tokens = {t1}
    Ops = {"create", "delete", "enroll", "issue", "status", "complete", "revoke"}
    SessionTTL = 1
    MaxTime = 1
    Faulty = TRUE
SPECIFICATION Spec
INVARIANTS
    TypeOK
    LinkFaceIsItsEmployees
    CompletedMeansEnrolled
PROPERTIES
    SettledStaysSettled
    ClosedLinkAdmitsNobody
SYMMETRY Symmetry
CHECK_DEADLOCK FALSE
