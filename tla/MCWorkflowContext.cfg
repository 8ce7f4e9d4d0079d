CONSTANTS
    owner = owner
    other = other
    admin = admin
    d1 = d1
    d2 = d2
    f = f
    main = main
    Owners <- MCOwners
    Admin = admin
    Devops <- MCDevops
    Features <- MCFeatures
    Default = main
    SlugLength <- MCShort
    Stem <- MCStem
    Digest <- MCDigest
    PrefixLength = 17
    Lanes = {"pull", "verify", "rescue", "manual"}
    MaxPulls = 1
    MaxRuns = 2
SPECIFICATION Spec
INVARIANTS
    OneRunPerState
    StateNamesOneCluster
    NoStackIsStranded
PROPERTIES
    DestroysOnlyItsOwn
    SharedStaysUp
