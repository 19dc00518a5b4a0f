SPECIFICATION FocusFairSpec
CONSTANTS
    player = player
    successor = successor
    assistant = assistant
    Pids = {player, successor, assistant}
    NoPid = NoPid
    TypesOf <- Roles
    Registers <- Callbacks
    PendingSlots = 1
    EventQueue = 1
    MaxRef = 2
INVARIANTS
    Counted
    OwnCallbacks
    Informed
PROPERTIES
    DeadOwnerReclaimed
