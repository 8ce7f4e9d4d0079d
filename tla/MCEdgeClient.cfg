\* Two requests: one under way at a stop, and one that a thread which has
\* outlived the stop submits after it; or one that ends and one under way
\* when the window is left.  Both kiosks may stop.
CONSTANTS
    MaxRequests = 2
    MaxFaces = 2
SPECIFICATION EdgeSpec
INVARIANTS
    EdgeTypeOK
    OneRequestUnderWay
    VerdictsAreTheBackends
    OfflineShowsNoPicture
    StoppedLeavesNothingPending
    LeavesNothingPending
PROPERTIES
    VerifyingEnds
    StopReleasesCamera
    ExitIsHeard
CHECK_DEADLOCK FALSE
