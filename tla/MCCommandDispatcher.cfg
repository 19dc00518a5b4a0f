SPECIFICATION FairSpec
CONSTANTS
    QueueSize = 2
    HandledSize = 2
    EmptyString = EmptyString
    NoMac = NoMac
    NoMessage = NoMessage
    c1 = c1
    c2 = c2
    long = long
    fallback = fallback
    mac = mac
    macColon = macColon
    Ids <- MCIds
    Stored <- MCStored
    DeviceIds <- MCDeviceIds
    OwnIds <- MCOwnIds
    Messages <- MCMessages
INVARIANTS
    NoLostWakeup
    TruthfulAck
PROPERTIES
    AtMostOncePerWindow
    ImplementsService
    ServesEveryCommand
