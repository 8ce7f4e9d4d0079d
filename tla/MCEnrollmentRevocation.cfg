\* An enrollment overlaps the deletion of its employee.
CONSTANTS
    Handlers = {h1, h2}
    Employees = {e1}
    Tokens = {t1}
    Ops = {"create", "delete", "enroll"}
    SessionTTL = 1
    MaxTime = 0
    Faulty = FALSE
SPECIFICATION Spec
INVARIANT InactiveHasNoFace
SYMMETRY Symmetry
CHECK_DEADLOCK FALSE
