SPECIFICATION FairSpec
CONSTANTS
    s1 = s1
    s2 = s2
    v1 = v1
    v2 = v2
    Vfds = {s1, s2}
    NonBlocking = {s2}
    NoVfd = NoVfd
    JustOneVM = FALSE
    WarmupConnects = 2
    IntraRequests = 1
    Visitors = {v1}
PROPERTIES
    JoinEnds
\* A master that is ready is forked, a process that has ended does nothing.
CHECK_DEADLOCK FALSE
