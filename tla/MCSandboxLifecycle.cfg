\* One pull request, all that people do to it in any order.
CONSTANTS
    PRs = {p1}
    Owner <- MCOwner
    MaxHead = 2
    MaxEvents = 5
SPECIFICATION FairSpec
INVARIANT ActiveMeansBuilt
PROPERTIES
    UnmarkedMeansGone
    OpenSandboxesExpire
CHECK_DEADLOCK FALSE
