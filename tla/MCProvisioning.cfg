SPECIFICATION FairSpec
CONSTANTS
    Callers = {c1}
    MaxSessions = 5
INVARIANTS
    NoZombie
PROPERTIES
    StopEndsWorkers
CHECK_DEADLOCK FALSE
