SPECIFICATION FairSpec
CONSTANTS
    c1 = c1
    c2 = c2
    Forks <- WithUncounted
    Conns = {c1, c2}
    NoConn = NoConn
    PollMethods <- Methods
    Ephemeral = TRUE
    Verbose = TRUE
    MaxFaults <- OneForkLost
INVARIANTS
    IInv
    Isolation
    NoConnLost
    ReadyIsPristine
    BusyForAReason
PROPERTIES
    ImplementsSingleUse
    Served
    ReadyAgain
\* An idle server waits for connections.
CHECK_DEADLOCK FALSE
