\* Two scans of one device, one after the other.
CONSTANTS
    Scans = {s1, s2}
    Replicas = {r1}
    Employees = {e1}
    Objects = {o1}
    Window = 1
    MaxTime = 0
SPECIFICATION Spec
INVARIANT SnapshotIsTheEvents
CHECK_DEADLOCK FALSE
