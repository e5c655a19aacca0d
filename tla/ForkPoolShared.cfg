SPECIFICATION FairSpec
CONSTANTS
    c1 = c1
    c2 = c2
    Forks <- ThreeForks
    Conns = {c1, c2}
    NoConn = NoConn
    PollMethods <- Methods
    Ephemeral = FALSE
    Verbose = FALSE
    MaxFaults <- TwoForksLost
PROPERTIES
    ServedOrStranded
\* An idle server waits for connections.
CHECK_DEADLOCK FALSE
