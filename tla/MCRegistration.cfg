SPECIFICATION Spec
CONSTANTS
    Observers = {dispatcher}
    StatusThreads = {s1, s2}
    MaxBoots = 2
SYMMETRY Symmetry
INVARIANTS
    HiddenWhenDone
    ToldOnce
    FlagRemembers
    Survives
    NoOrphan
    ClaimHeld
