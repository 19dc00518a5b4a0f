SPECIFICATION Spec
CONSTANTS
    Callers = {c1}
    MaxSessions = 3
PROPERTIES
    SessionsDoNotMix
CHECK_DEADLOCK FALSE
