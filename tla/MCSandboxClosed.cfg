CONSTANTS
    PRs = {p1}
    Owner <- MCOwner
    MaxHead = 1
    MaxEvents = 2
SPECIFICATION FairSpec
PROPERTY
    ClosedSandboxesGo
CHECK_DEADLOCK FALSE
