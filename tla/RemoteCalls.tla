---------------------------- MODULE RemoteCalls ----------------------------
(***************************************************************************)
(* What storage VMs promise to their callers, without saying how: a call   *)
(* is served once, by a storage VM that serves nobody else in the          *)
(* meantime and works on the buffer of the caller, or on none if it was    *)
(* not waiting for a task.  Only where buffers can be mixed up may it be   *)
(* the buffer of another caller.                                           *)
(***************************************************************************)

CONSTANTS
    Callers,   \* request VMs
    Servers,   \* storage VMs
    Nobody     \* no caller

VARIABLES
    mixed,     \* whether buffers can be mixed up
    asked,     \* the callers whose call has not been taken up
    serving,   \* the callers whose call each storage VM has taken up
    waiting,   \* whether each storage VM waits, or waited, for a task
    work       \* whose buffer each storage VM works on, or did last

vars == <<mixed, asked, serving, waiting, work>>

Init ==
    /\ mixed \in BOOLEAN
    /\ asked = {}
    /\ serving = [s \in Servers |-> {}]
    /\ waiting = [s \in Servers |-> TRUE]
    /\ work = [s \in Servers |-> Nobody]

\* A caller has one call at a time.
Ask(a) ==
    /\ a \notin asked /\ \A s \in Servers : a \notin serving[s]
    /\ asked' = asked \cup {a}
    /\ UNCHANGED <<mixed, serving, waiting, work>>

Serve(a, s) ==
    /\ a \in asked /\ serving[s] = {}
    /\ asked' = asked \ {a}
    /\ serving' = [serving EXCEPT ![s] = {a}]
    /\ \E b \in IF mixed THEN Callers \cup {Nobody} ELSE {IF waiting[s] THEN a ELSE Nobody} :
          work' = [work EXCEPT ![s] = b]
    /\ UNCHANGED <<mixed, waiting>>

\* The call is answered, or failed, and the storage VM may not wait any more.
Return(s) ==
    /\ serving[s] # {}
    /\ serving' = [serving EXCEPT ![s] = {}]
    /\ \E w \in BOOLEAN : waiting' = [waiting EXCEPT ![s] = w]
    /\ UNCHANGED <<mixed, asked, work>>

\* A storage VM is booted or forked, and serves nobody yet.
Prepare(s) ==
    /\ serving[s] = {}
    /\ \E w \in BOOLEAN : waiting' = [waiting EXCEPT ![s] = w]
    /\ UNCHANGED <<mixed, asked, serving, work>>

Next ==
    \/ \E a \in Callers : Ask(a)
    \/ \E a \in Callers, s \in Servers : Serve(a, s)
    \/ \E s \in Servers : Return(s) \/ Prepare(s)

Spec == Init /\ [][Next]_vars

=============================================================================
