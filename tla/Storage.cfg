SPECIFICATION FairSpec
CONSTANTS
    f1 = f1
    f2 = f2
    f3 = f3
    Forks = {f1, f2, f3}
    Main = Main
    Nobody = Nobody
    MaxFaults = 2
INVARIANTS
    StorageInv
    SerializedWorksForCaller
    ForkedWhilePaused
    CallsCanGoOn
PROPERTIES
    OwnCallReturns
    ImplementsCalls
\* A program that has ended does nothing.
CHECK_DEADLOCK FALSE
