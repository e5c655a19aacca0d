SPECIFICATION FairSpec
CONSTANTS
    inet = inet
    inet6 = inet6
    path = path
    fd = fd
    e1 = e1
    e2 = e2
    Inet4 = {inet}
    Inet6 = {inet6}
    Unix = {path}
    AnyPort = AnyPort
    Closed = Closed
    Zero = Zero
    Vfds = {Zero, fd}
    Restorable = {Zero}
    Epolls = {e1, e2}
    NoVM = NoVM
    MaxFaults = 2
INVARIANTS
    SnapshotInv
    RestoredAsSaved
PROPERTIES
    ImageKept
    ComesBack
\* A server that was restored may run for ever.
CHECK_DEADLOCK FALSE
