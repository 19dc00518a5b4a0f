SPECIFICATION FairSpec
CONSTANTS
    Net = Net
    Publishers = {p1, p2}
    Notifiers = {n1}
    Fds = {f1, f2, f3}
    NoFd = NoFd
INVARIANTS
    OneOwner
    NoDescriptorLeak
    ErrorIsAboutThisLink
    StoppedIsClosed
PROPERTIES Reconnects
