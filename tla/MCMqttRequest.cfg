SPECIFICATION FairSpec
CONSTANTS
    Callers = {c1, c2, c3}
    Slots <- MCSlots
    NoSlot = NoSlot
    NoId = NoId
    MaxRequests = 3
INVARIANTS RightAnswer NoMissedAnswer
PROPERTIES BusyOnlyWhenFull CallReturns
