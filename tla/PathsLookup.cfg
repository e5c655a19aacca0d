SPECIFICATION FairSpec
CONSTANTS
    Segments = {1, 2}
    MaxLength = 2
    MaxOptions = 2
    Targets <- Elsewhere
    HostCwd <- Dir2
    Cwd <- Dir1
    Fake <- Other
    Temp <- TempFile
    Random <- Dir2
    Device <- Last
    Exe <- Deeper
    Main <- Deep
INVARIANTS
    SearchInv
    FindsLongestPrefix
PROPERTIES
    SearchEnds
    SearchAdvances
    ImplementsPolicy
\* One lookup per behaviour.
CHECK_DEADLOCK FALSE
