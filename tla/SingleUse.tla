----------------------------- MODULE SingleUse -----------------------------
(***************************************************************************)
(* What an ephemeral pool of request VMs promises, without saying how:     *)
(* every worker is used for one connection at a time, a connection goes to *)
(* at most one worker, and a worker is handed a connection only when its   *)
(* memory holds nothing of an earlier one.                                 *)
(***************************************************************************)

CONSTANTS
    Workers,   \* the request VMs
    Conns,     \* the client connections
    NoConn     \* the value of a free slot

VARIABLES
    slot,      \* slot[w]: the connection worker w is used for, or NoConn
    memory,    \* memory[w]: the connections that have left a trace in w
    taken      \* the connections handed to a worker so far

vars == <<slot, memory, taken>>

Init ==
    /\ slot = [w \in Workers |-> NoConn]
    /\ memory = [w \in Workers |-> {}]
    /\ taken = {}

\* A free worker is handed a connection nobody was handed before.
Take(w, c) ==
    /\ slot[w] = NoConn
    /\ memory[w] = {}
    /\ c \notin taken
    /\ slot' = [slot EXCEPT ![w] = c]
    /\ memory' = [memory EXCEPT ![w] = {c}]
    /\ taken' = taken \cup {c}

\* The memory of a worker is restored while the worker stays unavailable.
Wipe(w) ==
    /\ slot[w] # NoConn
    /\ memory' = [memory EXCEPT ![w] = {}]
    /\ UNCHANGED <<slot, taken>>

\* A worker becomes available again, with its memory restored.
Release(w) ==
    /\ slot[w] # NoConn
    /\ slot' = [slot EXCEPT ![w] = NoConn]
    /\ memory' = [memory EXCEPT ![w] = {}]
    /\ UNCHANGED taken

Next ==
    \E w \in Workers :
        \/ \E c \in Conns : Take(w, c)
        \/ Wipe(w)
        \/ Release(w)

Spec == Init /\ [][Next]_vars

=============================================================================
