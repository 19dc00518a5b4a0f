SPECIFICATION DeliveryFairSpec
CONSTANTS
    Commands = {c1, c2}
    NoMessage = NoMessage
    Capacity = 2
    MaxSends = 5
    MaxWire = 3
    MaxFaults = 2
INVARIANTS
    InOrder
PROPERTIES
    EventuallyAcked
    StopEnds
