SPECIFICATION Spec
CONSTANTS
    f1 = f1
    f2 = f2
    f3 = f3
    Forks = {f1, f2}
    Main = Main
    Nobody = Nobody
    MaxFaults = 0
INVARIANT WorksForCaller
\* A program that has ended does nothing.
CHECK_DEADLOCK FALSE
