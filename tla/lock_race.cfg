\* Three processes, one of which dies: the other two reclaim its lock.
CONSTANTS
    Proc = {p1, p2, p3}
    Concurrent = TRUE
    MaxDeaths = 1
SPECIFICATION Spec
INVARIANT MutualExclusion
