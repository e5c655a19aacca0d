----------------------------- MODULE MCForkPool -----------------------------
(* Small instances of ForkPool for TLC.                                     *)
EXTENDS ForkPool

CONSTANTS c1, c2

Methods == {"Blocking", "Poll", "Epoll"}

\* The last fork with a reset counter and the first one without.
Boundary == {63, 64}
\* Two forks with a reset counter and one without.
WithUncounted == {0, 1, 64}
ThreeForks == {0, 1, 2}

Faults(create, exit, throw, reset) ==
    [k \in FaultKinds |-> CASE k = "create" -> create
                            [] k = "exit" -> exit
                            [] k = "throw" -> throw
                            [] k = "reset" -> reset]

OneForkLost == Faults(0, 1, 1, 1)
TwoForksLost == Faults(1, 1, 1, 1)
NoFaults == Faults(0, 0, 0, 0)

=============================================================================
