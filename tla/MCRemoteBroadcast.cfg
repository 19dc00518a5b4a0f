SPECIFICATION FairSpec
CONSTANTS
    QueueSize = 2
    Submitters = {s1, s2}
    MaxBroadcasts = 3
    NULL = NULL
INVARIANTS NothingDangles
PROPERTIES KeepsNewest PlanIsShown
CHECK_DEADLOCK FALSE
