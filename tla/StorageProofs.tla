--------------------------- MODULE StorageProofs ---------------------------
(* Proofs about Storage, for every set of forks and every fault budget.     *)
EXTENDS Storage, TLAPS

USE VMsAssumption, FaultsAssumption DEF Config, Places

\* The actions as a type invariant sees them.
LEMMA StorageTyped ==
    ASSUME TypeOK, [Next]_vars
    PROVE  TypeOK'
<1>0. Forks \subseteq VMs /\ Main \in VMs BY DEF VMs
<1>1. CASE BootStorage
    BY <1>0, <1>1 DEF TypeOK, BootStorage, Goto
<1>2. CASE StorageDoesNotWait
    BY <1>0, <1>2 DEF TypeOK, StorageDoesNotWait, vms
<1>3. CASE VMWaits
    BY <1>0, <1>3 DEF TypeOK, VMWaits, Goto, vms
<1>4. ASSUME NEW f \in Forks, CreateFork(f) PROVE TypeOK'
    BY <1>0, <1>4 DEF TypeOK, CreateFork, Goto
<1>5. ASSUME NEW f \in Forks, CreateForkFails(f) PROVE TypeOK'
    BY <1>0, <1>5 DEF TypeOK, CreateForkFails, Goto, link, vms
<1>6. ASSUME NEW a \in VMs, RemoteResume(a) PROVE TypeOK'
    BY <1>0, <1>6 DEF TypeOK, RemoteResume, Goto, link
<1>7. ASSUME NEW a \in VMs, Enter(a) PROVE TypeOK'
    <2>1. mail' \in [VMs -> VMs \cup {Nobody}]
        BY <1>7 DEF TypeOK, Enter, Deliver
    <2>2. task' \in [VMs -> VMs \cup {Nobody}]
        BY <1>7, <2>1 DEF TypeOK, Enter
    <2>3. inside' \in [VMs -> SUBSET VMs]
        BY <1>7 DEF TypeOK, Enter
    <2>4. storage' \in [VMs -> {"none", "paused", "busy"}]
        BY <1>7 DEF TypeOK, Enter
    <2>5. thread' \in [VMs -> {"none", "guest", "resume", "inside", "failed", "exited"}]
        BY <1>7 DEF TypeOK, Enter, Goto
    <2> QED
        BY <1>7, <2>1, <2>2, <2>3, <2>4, <2>5 DEF TypeOK, Enter, link
<1>8. ASSUME NEW a \in VMs, WaitPaused(a) PROVE TypeOK'
    BY <1>0, <1>8 DEF TypeOK, WaitPaused, Leave, Goto, link
<1>9. ASSUME NEW a \in VMs, StorageThrows(a) PROVE TypeOK'
    <2>1. faults' \in Nat
        BY <1>9 DEF TypeOK, StorageThrows
    <2> QED
        BY <1>9, <2>1 DEF TypeOK, StorageThrows, Leave, Goto, link
<1>10. ASSUME NEW a \in VMs, Recover(a) PROVE TypeOK'
    BY <1>0, <1>10 DEF TypeOK, Recover, Goto, vms
<1>11. CASE UNCHANGED vars
    BY <1>0, <1>11 DEF TypeOK, vars, link, vms
<1> QED
    BY <1>1, <1>2, <1>3, <1>4, <1>5, <1>6, <1>7, <1>8, <1>9, <1>10, <1>11 DEF Next

\* Every action keeps the invariant.
LEMMA StorageInductive ==
    ASSUME StorageInv, [Next]_vars
    PROVE  StorageInv'
<1> USE DEF StorageInv
<1>0. TypeOK' /\ Forks \subseteq VMs /\ Main \in VMs
    BY StorageTyped DEF VMs
<1>1. CASE BootStorage
    <2>1. Booting'
        BY <1>0, <1>1 DEF TypeOK, BootStorage, Goto, Booting, Linked, Exclusive
    <2>2. Linked'
        <3>1. \A a \in VMs : remote'[a] # Nobody => storage'[remote'[a]] # "none"
            BY <1>0, <1>1 DEF TypeOK, BootStorage, Linked
        <3> QED
            BY <1>0, <1>1, <3>1 DEF TypeOK, BootStorage, Goto, Booting, Linked
    <2>3. Exclusive'
        <3>1. \A a \in VMs : thread[a] = "none" /\ thread'[a] # "inside"
            BY <1>0, <1>1 DEF TypeOK, BootStorage, Goto, Booting, VMs
        <3>2. \A s \in VMs : inside[s] = {} /\ inside'[s] = {}
            BY <1>0, <1>1, <3>1 DEF TypeOK, BootStorage, Exclusive
        <3>3. \A s \in VMs : storage'[s] # "busy"
            BY <1>0, <1>1, <3>2 DEF TypeOK, BootStorage, Exclusive
        <3> QED
            BY <3>1, <3>2, <3>3 DEF Exclusive
    <2>4. Delivered'
        BY <1>0, <1>1 DEF TypeOK, BootStorage, Goto, Booting, Linked, Exclusive, Delivered,
               Unserialized, VMs
    <2> QED
        BY <1>0, <2>1, <2>2, <2>3, <2>4
<1>2. CASE StorageDoesNotWait
    <2>1. Booting'
        BY <1>0, <1>2 DEF TypeOK, StorageDoesNotWait, vms, Booting, Linked, Exclusive
    <2>2. Linked'
        BY <1>0, <1>2 DEF TypeOK, StorageDoesNotWait, vms, Booting, Linked, Exclusive
    <2>3. Exclusive'
        BY <1>0, <1>2 DEF TypeOK, StorageDoesNotWait, vms, Booting, Linked, Exclusive
    <2>4. Delivered'
        BY <1>0, <1>2 DEF TypeOK, StorageDoesNotWait, vms, Booting, Linked, Exclusive, Delivered, Unserialized
    <2> QED
        BY <1>0, <2>1, <2>2, <2>3, <2>4
<1>3. CASE VMWaits
    <2>1. Booting'
        BY <1>0, <1>3 DEF TypeOK, VMWaits, Goto, vms, Booting, Linked, Exclusive
    <2>2. Linked'
        BY <1>0, <1>3 DEF TypeOK, VMWaits, Goto, vms, Booting, Linked, Exclusive
    <2>3. Exclusive'
        BY <1>0, <1>3 DEF TypeOK, VMWaits, Goto, vms, Booting, Linked, Exclusive
    <2>4. Delivered'
        BY <1>0, <1>3 DEF TypeOK, VMWaits, Goto, vms, Booting, Linked, Exclusive, Delivered, Unserialized
    <2> QED
        BY <1>0, <2>1, <2>2, <2>3, <2>4
<1>4. ASSUME NEW f \in Forks, CreateFork(f) PROVE StorageInv'
    <2>1. Booting'
        BY <1>0, <1>4 DEF TypeOK, CreateFork, Goto, Booting, Linked, Exclusive
    <2>2. Linked'
        BY <1>0, <1>4 DEF TypeOK, CreateFork, Goto, Booting, Linked, Exclusive
    <2>3. Exclusive'
        BY <1>0, <1>4 DEF TypeOK, CreateFork, Goto, Booting, Linked, Exclusive, VMs
    <2>4. Delivered'
        BY <1>0, <1>4 DEF TypeOK, CreateFork, Goto, Booting, Linked, Exclusive, Delivered,
               Unserialized, VMs
    <2> QED
        BY <1>0, <2>1, <2>2, <2>3, <2>4
<1>5. ASSUME NEW f \in Forks, CreateForkFails(f) PROVE StorageInv'
    <2>1. Booting'
        BY <1>0, <1>5 DEF TypeOK, CreateForkFails, Goto, link, vms, Booting, Linked, Exclusive
    <2>2. Linked'
        BY <1>0, <1>5 DEF TypeOK, CreateForkFails, Goto, link, vms, Booting, Linked, Exclusive
    <2>3. Exclusive'
        BY <1>0, <1>5 DEF TypeOK, CreateForkFails, Goto, link, vms, Booting, Linked, Exclusive
    <2>4. Delivered'
        BY <1>0, <1>5 DEF TypeOK, CreateForkFails, Goto, link, vms, Booting, Linked, Exclusive, Delivered, Unserialized
    <2> QED
        BY <1>0, <2>1, <2>2, <2>3, <2>4
<1>6. ASSUME NEW a \in VMs, RemoteResume(a) PROVE StorageInv'
    <2>1. Booting'
        BY <1>0, <1>6 DEF TypeOK, RemoteResume, Goto, link, Booting, Linked, Exclusive, VMs
    <2>2. Linked'
        BY <1>0, <1>6 DEF TypeOK, RemoteResume, Goto, link, Booting, Linked, Exclusive, VMs
    <2>3. Exclusive'
        BY <1>0, <1>6 DEF TypeOK, RemoteResume, Goto, link, Booting, Linked, Exclusive, VMs
    <2>4. Delivered'
        BY <1>0, <1>6 DEF TypeOK, RemoteResume, Goto, link, Booting, Linked, Exclusive, Delivered,
               Unserialized, VMs
    <2> QED
        BY <1>0, <2>1, <2>2, <2>3, <2>4
<1>7. ASSUME NEW a \in VMs, Enter(a) PROVE StorageInv'
    <2>1. Booting'
        BY <1>0, <1>7 DEF TypeOK, Enter, Deliver, Serialized, Goto, link, Booting, Linked, Exclusive, VMs
    <2>2. Linked'
        BY <1>0, <1>7 DEF TypeOK, Enter, Deliver, Serialized, Goto, link, Booting, Linked, Exclusive, VMs
    <2>3. Exclusive'
        BY <1>0, <1>7 DEF TypeOK, Enter, Deliver, Serialized, Goto, link, Booting, Linked, Exclusive, VMs
    <2>4. Delivered'
        BY <1>0, <1>7, <2>3 DEF TypeOK, Enter, Deliver, Goto, link, Linked, Exclusive, Delivered,
               Unserialized
    <2> QED
        BY <1>0, <2>1, <2>2, <2>3, <2>4
<1>8. ASSUME NEW a \in VMs, WaitPaused(a) PROVE StorageInv'
    <2>1. Booting'
        BY <1>0, <1>8 DEF TypeOK, WaitPaused, Leave, Goto, link, Booting, Linked, Exclusive, VMs
    <2>2. Linked'
        BY <1>0, <1>8 DEF TypeOK, WaitPaused, Leave, Goto, link, Booting, Linked, Exclusive, VMs
    <2>3. Exclusive'
        BY <1>0, <1>8 DEF TypeOK, WaitPaused, Leave, Goto, link, Booting, Linked, Exclusive, VMs
    <2>4. Delivered'
        BY <1>0, <1>8 DEF TypeOK, WaitPaused, Leave, Goto, link, Booting, Linked, Exclusive, Delivered, Unserialized
    <2> QED
        BY <1>0, <2>1, <2>2, <2>3, <2>4
<1>9. ASSUME NEW a \in VMs, StorageThrows(a) PROVE StorageInv'
    <2>1. Booting'
        BY <1>0, <1>9 DEF TypeOK, StorageThrows, Leave, Goto, link, Booting, Linked, Exclusive, VMs
    <2>2. Linked'
        BY <1>0, <1>9 DEF TypeOK, StorageThrows, Leave, Goto, link, Booting, Linked, Exclusive, VMs
    <2>3. Exclusive'
        BY <1>0, <1>9 DEF TypeOK, StorageThrows, Leave, Goto, link, Booting, Linked, Exclusive, VMs
    <2>4. Delivered'
        BY <1>0, <1>9 DEF TypeOK, StorageThrows, Leave, Goto, link, Booting, Linked, Exclusive, Delivered, Unserialized
    <2> QED
        BY <1>0, <2>1, <2>2, <2>3, <2>4
<1>10. ASSUME NEW a \in VMs, Recover(a) PROVE StorageInv'
    <2>1. Booting'
        BY <1>0, <1>10 DEF TypeOK, Recover, EndsProgram, Goto, vms, Booting, Linked, Exclusive, VMs
    <2>2. Linked'
        BY <1>0, <1>10 DEF TypeOK, Recover, EndsProgram, Goto, vms, Booting, Linked, Exclusive, VMs
    <2>3. Exclusive'
        BY <1>0, <1>10 DEF TypeOK, Recover, EndsProgram, Goto, vms, Booting, Linked, Exclusive, VMs
    <2>4. Delivered'
        BY <1>0, <1>10 DEF TypeOK, Recover, EndsProgram, Goto, vms, Booting, Linked, Exclusive, Delivered, Unserialized
    <2> QED
        BY <1>0, <2>1, <2>2, <2>3, <2>4
<1>11. CASE UNCHANGED vars
    BY <1>0, <1>11 DEF Booting, Linked, Exclusive, Delivered, Unserialized, vars, link, vms
<1> QED
    BY <1>1, <1>2, <1>3, <1>4, <1>5, <1>6, <1>7, <1>8, <1>9, <1>10, <1>11 DEF Next

\* However calls, failures and forks interleave, at most one thread runs a
\* storage VM, and it was handed that thread's buffer unless its registers are
\* written outside the mutex.
THEOREM StorageInvariant == Spec => []StorageInv
<1>1. Init => StorageInv
    BY DEF Init, StorageInv, TypeOK, Booting, Linked, Exclusive, Delivered, VMs
<1>2. StorageInv /\ [Next]_vars => StorageInv'
    BY StorageInductive
<1> QED
    BY <1>1, <1>2, PTL DEF Spec

\* sys_remote_resume: a storage VM in a call works for the one request VM that
\* called it, for every number of forks.
THEOREM StorageWorksForCaller == Spec => []SerializedWorksForCaller
<1>1. StorageInv => SerializedWorksForCaller
    <2> SUFFICES ASSUME StorageInv, ~Unserialized, NEW s \in VMs, NEW a \in inside[s]
                 PROVE  inside[s] = {a} /\ (place[s] = "wait" => task[s] = a)
        BY DEF SerializedWorksForCaller, WorksForCaller
    <2> QED
        BY DEF StorageInv, Exclusive, Delivered
<1> QED
    BY <1>1, StorageInvariant, PTL

\* main(): the storage VM is at rest while threads fork it.
THEOREM StorageForkedWhilePaused == Spec => []ForkedWhilePaused
<1>1. StorageInv => ForkedWhilePaused
    <2> SUFFICES ASSUME StorageInv, main = "fork", config.storage_1_to_1
                 PROVE  storage[Main] = "paused" /\ inside[Main] = {} /\ place[Main] # "lost"
        BY DEF ForkedWhilePaused
    <2>1. Main \in VMs /\ storage[Main] # "none" /\ place[Main] # "lost"
        BY DEF StorageInv, Booting, VMs
    <2>2. \A a \in VMs : a \notin inside[Main]
        BY <2>1 DEF StorageInv, Booting, Linked, Exclusive, VMs
    <2> QED
        BY <2>1, <2>2 DEF StorageInv, TypeOK, Exclusive
<1> QED
    BY <1>1, StorageInvariant, PTL

\* Whoever waits for a storage VM can go on as soon as at most one other thread
\* is done, for every number of forks.
THEOREM StorageCallsCanGoOn == Spec => []CallsCanGoOn
<1>1. StorageInv => CallsCanGoOn
    <2> SUFFICES ASSUME StorageInv, NEW a \in VMs, thread[a] = "resume"
                 PROVE  \/ storage[remote[a]] = "paused" /\ inside[remote[a]] = {}
                        \/ /\ storage[remote[a]] = "busy"
                           /\ \E b \in VMs \ {a} : inside[remote[a]] = {b} /\ thread[b] = "inside"
        BY DEF CallsCanGoOn
    <2>1. remote[a] \in VMs /\ storage[remote[a]] \in {"paused", "busy"}
        BY DEF StorageInv, TypeOK, Linked
    <2>2. CASE inside[remote[a]] = {}
        BY <2>1, <2>2 DEF StorageInv, Exclusive
    <2>3. ASSUME NEW b \in inside[remote[a]]
          PROVE  storage[remote[a]] = "busy" /\ inside[remote[a]] = {b} /\ b \in VMs \ {a} /\ thread[b] = "inside"
        <3>1. inside[remote[a]] \subseteq VMs
            BY <2>1 DEF StorageInv, TypeOK
        <3> QED
            BY <2>1, <2>3, <3>1 DEF StorageInv, Exclusive
    <2> QED
        BY <2>2, <2>3
<1> QED
    BY <1>1, StorageInvariant, PTL

-----------------------------------------------------------------------------
(* The refinement of RemoteCalls.                                           *)

Asked == {a \in VMs : thread[a] = "resume"}
Waiting == [s \in VMs |-> place[s] = "wait"]

\* A step that starts no call, takes none up and answers none.
LEMMA CallsStutter ==
    ASSUME Asked' = Asked, UNCHANGED <<config, inside, task, place>>
    PROVE  UNCHANGED Calls!vars
    BY DEF Asked, Calls!vars, Unserialized

\* Nobody is inside a storage VM whose own request VM does not run it, unless
\* that is the one main() booted.
LEMMA OwnStorageFree ==
    ASSUME StorageInv, NEW s \in Forks, thread[s] # "inside"
    PROVE  inside[s] = {}
<1>1. s \in VMs /\ inside[s] \subseteq VMs
    BY DEF StorageInv, TypeOK, VMs
<1>2. ASSUME NEW b \in inside[s] PROVE FALSE
    <2>1. b \in VMs /\ thread[b] = "inside" /\ remote[b] = s
        BY <1>1, <1>2 DEF StorageInv, Exclusive
    <2>2. b # Main
        BY <2>1 DEF StorageInv, Linked, VMs
    <2>3. b = s
        BY <2>1, <2>2 DEF StorageInv, Linked, VMs
    <2> QED
        BY <2>1, <2>3
<1> QED
    BY <1>2

\* A storage VM that nobody is inside gets a new place.
LEMMA PlacePrepares ==
    ASSUME StorageInv, NEW s \in VMs, inside[s] = {}, Asked' = Asked,
           UNCHANGED <<config, inside, task>>, NEW p, place' = [place EXCEPT ![s] = p]
    PROVE  Calls!Next
<1>1. Waiting' = [Waiting EXCEPT ![s] = (p = "wait")]
    BY DEF StorageInv, TypeOK, Waiting
<1>2. Calls!Prepare(s)
    BY <1>1 DEF Calls!Prepare, Waiting, Asked, Unserialized
<1> QED
    BY <1>2 DEF Calls!Next

\* sys_remote_resume on a VM that is linked asks.
LEMMA ResumeAsks ==
    ASSUME StorageInv, NEW a \in VMs, RemoteResume(a)
    PROVE  [Calls!Next]_(Calls!vars)
<1>1. UNCHANGED <<config, inside, task, place>> /\ Unserialized' = Unserialized
    BY DEF RemoteResume, link, Unserialized
<1>2. CASE remote[a] = Nobody
    <2>1. Asked' = Asked
        BY <1>2 DEF StorageInv, TypeOK, RemoteResume, Goto, Asked
    <2> QED
        BY <1>1, <2>1, CallsStutter
<1>3. CASE remote[a] # Nobody
    <2>1. Asked' = Asked \cup {a} /\ a \notin Asked
        BY <1>3 DEF StorageInv, TypeOK, RemoteResume, Goto, Asked
    <2>2. \A s \in VMs : a \notin inside[s]
        BY DEF StorageInv, Exclusive, RemoteResume
    <2>3. Calls!Ask(a)
        BY <1>1, <2>1, <2>2 DEF Calls!Ask, Asked
    <2> QED
        BY <2>3 DEF Calls!Next
<1> QED
    BY <1>2, <1>3

\* The thread that enters a storage VM finds nobody there, and its buffer.
LEMMA EnterServes ==
    ASSUME StorageInv, NEW a \in VMs, Enter(a)
    PROVE  Calls!Next
<1>0. PICK s \in VMs : s = remote[a]
    BY DEF StorageInv, TypeOK, Linked, Enter
<1>1. s = remote[a] /\ thread[a] = "resume" /\ Unserialized' = Unserialized
    BY <1>0 DEF Enter, link, Unserialized
<1>2. inside[s] = {}
    <2>1. CASE s = Main
        BY <1>1, <2>1 DEF Enter, Serialized
    <2>2. CASE s # Main
        <3>1. s \in Forks /\ s = a
            BY <1>1, <2>2 DEF StorageInv, Linked, VMs
        <3> QED
            BY <1>1, <3>1, OwnStorageFree
    <2> QED
        BY <2>1, <2>2
<1>3. inside' = [inside EXCEPT ![s] = {a}]
    BY <1>1, <1>2 DEF StorageInv, TypeOK, Enter
<1>4. Asked' = Asked \ {a} /\ a \in Asked
    BY <1>1 DEF StorageInv, TypeOK, Enter, Goto, Asked
<1>5. \E b \in IF Unserialized THEN VMs \cup {Nobody} ELSE {IF Waiting[s] THEN a ELSE Nobody} :
         task' = [task EXCEPT ![s] = b]
    <2>1. task' = [task EXCEPT ![s] = IF place[s] = "wait" THEN mail'[s] ELSE Nobody]
        BY <1>1 DEF Enter
    <2>2. mail'[s] \in VMs \cup {Nobody}
        BY <1>1 DEF StorageInv, TypeOK, Enter, Deliver
    <2>3. ~Unserialized => mail'[s] = a
        BY <1>1 DEF StorageInv, TypeOK, Delivered, Enter, Deliver
    <2> QED
        BY <1>1, <2>1, <2>2, <2>3 DEF Waiting
<1>6. UNCHANGED place
    BY DEF Enter
<1>7. Calls!Serve(a, s)
    BY <1>1, <1>2, <1>3, <1>4, <1>5, <1>6 DEF Calls!Serve, Asked, Waiting
<1> QED
    BY <1>7 DEF Calls!Next

\* A thread that leaves a storage VM leaves nobody there.
LEMMA LeaveReturns ==
    ASSUME StorageInv, NEW a \in VMs, WaitPaused(a) \/ StorageThrows(a)
    PROVE  Calls!Next
<1>0. PICK s \in VMs : s = remote[a]
    BY DEF StorageInv, TypeOK, Linked, WaitPaused, StorageThrows
<1>1. /\ s = remote[a] /\ thread[a] = "inside" /\ Unserialized' = Unserialized
      /\ UNCHANGED task
    BY <1>0 DEF WaitPaused, StorageThrows, link, Unserialized
<1>2. inside[s] = {a}
    BY <1>1 DEF StorageInv, TypeOK, Exclusive
<1>3. inside' = [inside EXCEPT ![s] = {}]
    BY <1>1, <1>2 DEF WaitPaused, StorageThrows, Leave
<1>4. Asked' = Asked
    BY <1>1 DEF StorageInv, TypeOK, WaitPaused, StorageThrows, Leave, Goto, Asked
<1>5. PICK p : place' = [place EXCEPT ![s] = p]
    BY <1>1 DEF WaitPaused, StorageThrows
<1>6. Waiting' = [Waiting EXCEPT ![s] = (p = "wait")]
    BY <1>5 DEF StorageInv, TypeOK, Waiting
<1>7. Calls!Return(s)
    BY <1>1, <1>2, <1>3, <1>4, <1>6 DEF Calls!Return, Asked, Waiting
<1> QED
    BY <1>7 DEF Calls!Next

\* Storage VMs, shared or forked, implement RemoteCalls for every number of
\* forks: calls are served one at a time, on the caller's buffer unless the
\* registers of a shared storage VM are written outside the mutex.
THEOREM StorageImplementsCalls == Spec => ImplementsCalls
<1>1. Init => Calls!Init
    <2> SUFFICES ASSUME Init PROVE Calls!Init
        OBVIOUS
    <2>1. Waiting = [s \in VMs |-> TRUE]
        BY DEF Init, Waiting
    <2>2. Unserialized \in BOOLEAN /\ Asked = {}
        BY DEF Init, Unserialized, Asked
    <2> QED
        BY <2>1, <2>2 DEF Init, Calls!Init, Waiting, Asked
<1>2. StorageInv /\ [Next]_vars => [Calls!Next]_(Calls!vars)
    <2> SUFFICES ASSUME StorageInv, [Next]_vars PROVE [Calls!Next]_(Calls!vars)
        OBVIOUS
    <2>0. Forks \subseteq VMs /\ Main \in VMs
        BY DEF VMs
    <2>1. ASSUME NEW a \in VMs, RemoteResume(a) PROVE [Calls!Next]_(Calls!vars)
        BY <2>1, ResumeAsks
    <2>2. ASSUME NEW a \in VMs, Enter(a) PROVE Calls!Next
        BY <2>2, EnterServes
    <2>3. ASSUME NEW a \in VMs, WaitPaused(a) \/ StorageThrows(a) PROVE Calls!Next
        BY <2>3, LeaveReturns
    <2>4. ASSUME NEW a \in VMs, Recover(a) PROVE UNCHANGED Calls!vars
        <3>1. Asked' = Asked
            BY <2>4 DEF StorageInv, TypeOK, Recover, Goto, Asked
        <3> QED
            BY <2>4, <3>1, CallsStutter DEF Recover, vms
    <2>5. CASE StorageDoesNotWait \/ VMWaits
        <3>1. Asked' = Asked
            BY <2>0, <2>5 DEF StorageInv, TypeOK, StorageDoesNotWait, VMWaits, Goto, Asked
        <3> QED
            BY <2>5, <3>1, CallsStutter DEF StorageDoesNotWait, VMWaits, vms
    <2>6. CASE BootStorage
        <3>1. Asked' = Asked /\ UNCHANGED <<config, inside, task>>
            BY <2>0, <2>6 DEF StorageInv, TypeOK, Booting, BootStorage, Goto, Asked
        <3>2. inside[Main] = {}
            <4>1. inside[Main] \subseteq VMs /\ \A b \in VMs : thread[b] # "inside"
                BY <2>0, <2>6 DEF StorageInv, TypeOK, Booting, BootStorage, VMs
            <4> QED
                BY <2>0, <4>1 DEF StorageInv, Exclusive
        <3>3. UNCHANGED place \/ \E p \in {"wait", "poll"} : place' = [place EXCEPT ![Main] = p]
            BY <2>6 DEF BootStorage
        <3> QED
            BY <2>0, <3>1, <3>2, <3>3, CallsStutter, PlacePrepares
    <2>7. ASSUME NEW f \in Forks, CreateFork(f) \/ CreateForkFails(f) PROVE [Calls!Next]_(Calls!vars)
        <3>1. Asked' = Asked /\ UNCHANGED <<config, inside, task>> /\ thread[f] = "none"
            BY <2>0, <2>7 DEF StorageInv, TypeOK, CreateFork, CreateForkFails, Goto, Asked, link, vms
        <3>2. inside[f] = {}
            BY <3>1, OwnStorageFree
        <3>3. UNCHANGED place \/ place' = [place EXCEPT ![f] = place[Main]]
            BY <2>7 DEF CreateFork, CreateForkFails, vms
        <3> QED
            BY <2>0, <3>1, <3>2, <3>3, CallsStutter, PlacePrepares
    <2>8. CASE UNCHANGED vars
        BY <2>8, CallsStutter DEF vars, link, vms, Asked
    <2> QED
        BY <2>1, <2>2, <2>3, <2>4, <2>5, <2>6, <2>7, <2>8 DEF Next
<1> QED
    BY <1>1, <1>2, StorageInvariant, PTL DEF Spec, ImplementsCalls, Calls!Spec

=============================================================================
