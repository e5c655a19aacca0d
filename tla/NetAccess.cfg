SPECIFICATION Spec
CONSTANTS
    any4 = any4
    a4 = a4
    any6 = any6
    a6 = a6
    known = known
    unknown = unknown
    path1 = path1
    path2 = path2
    Addrs4 = {any4, a4}
    Addrs6 = {any6, a6}
    Any4 = any4
    Any6 = any6
    Names = {known, unknown}
    Resolve <- TwoNames
    UnixPaths = {path1, path2}
    UnixAllowed = {path1}
    PortMax = 2
    UintMax = 3
    UlongMax = 6
    Numbers = {0, 1, 3, 4, 5, 7}
    NoPort = NoPort
    Nowhere = Nowhere
    MaxValues = 2
INVARIANTS
    NetInv
    AccessAsAsked
    ListensWhereAllowed
PROPERTIES
    OptionsOnlyGrant
\* A program that has ended and a socket that listens do nothing more.
CHECK_DEADLOCK FALSE
