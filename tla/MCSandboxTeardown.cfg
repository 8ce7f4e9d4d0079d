CONSTANT MaxFailures = 2
SPECIFICATION FairSpec
INVARIANT InactiveMeansGone
PROPERTY DestroyConverges
CHECK_DEADLOCK FALSE
