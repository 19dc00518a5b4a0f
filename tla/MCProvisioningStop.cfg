SPECIFICATION Spec
CONSTANTS
    Callers = {c1, c2}
    MaxSessions = 3
INVARIANTS
    StopHolds
CHECK_DEADLOCK FALSE
