SPECIFICATION FairSpec
CONSTANTS
    c1 = c1
    c2 = c2
    Forks <- Boundary
    Conns = {c1}
    NoConn = NoConn
    PollMethods <- Methods
    Ephemeral = TRUE
    Verbose = TRUE
    MaxFaults <- NoFaults
PROPERTIES
    ReadyAgainAnyFork
\* An idle server waits for connections.
CHECK_DEADLOCK FALSE
