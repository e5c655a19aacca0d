------------------------------ MODULE Storage ------------------------------
(***************************************************************************)
(* The storage VM: main() boots it before the main VM and links the two;   *)
(* the guest of a request VM hands it a buffer and resumes it              *)
(* (sys_remote_resume), and it pauses again when it asks for its next task *)
(* (sys_wait_for_storage_task_paused).  All request VMs share it under a   *)
(* mutex, or each has a fork of it (--storage-1-to-1).                     *)
(*                                                                         *)
(* A buffer is abstracted to the VM it belongs to: mail[s] is the one the  *)
(* registers of storage VM s hold, task[s] the one it works on.            *)
(***************************************************************************)
EXTENDS Naturals

CONSTANTS
    Forks,       \* request VMs, and their storage VMs with --storage-1-to-1
    Main,        \* the main VM, and the storage VM main() boots
    Nobody,      \* no VM
    MaxFaults    \* bound on the exceptions out of storage VMs

VMs == Forks \cup {Main}

ASSUME VMsAssumption == Main \notin Forks /\ Nobody \notin VMs
ASSUME FaultsAssumption == MaxFaults \in Nat

VARIABLES
    config,      \* the options
    main,        \* where main() is
    thread,      \* where the thread that runs each request VM is
    remote,      \* the storage VM each request VM is linked to
    storage,     \* what each storage VM does
    inside,      \* the threads that run each storage VM
    mail, task,
    place,       \* where the storage VM is, or was resumed from
    faults

link == <<config, main, remote>>
vms == <<storage, inside, mail, task, place>>
vars == <<link, thread, vms, faults>>

Config == [storage : BOOLEAN, storage_1_to_1 : BOOLEAN, storage_ipre_permanent : BOOLEAN,
           just_one_vm : BOOLEAN]

\* Waiting for its next task, polling a socket it listens on, or where an
\* exception left it.
Places == {"wait", "poll", "lost"}

TypeOK ==
    /\ config \in Config
    /\ main \in {"storage", "vm", "single", "fork", "exited"}
    /\ thread \in [VMs -> {"none", "guest", "resume", "inside", "failed", "exited"}]
    /\ remote \in [VMs -> VMs \cup {Nobody}]
    /\ storage \in [VMs -> {"none", "paused", "busy"}]
    /\ inside \in [VMs -> SUBSET VMs]
    /\ mail \in [VMs -> VMs \cup {Nobody}]
    /\ task \in [VMs -> VMs \cup {Nobody}]
    /\ place \in [VMs -> Places]
    /\ faults \in Nat

Init ==
    /\ config \in Config
    /\ main = "storage"
    /\ thread = [a \in VMs |-> "none"]
    /\ remote = [a \in VMs |-> Nobody]
    /\ storage = [s \in VMs |-> "none"]
    /\ inside = [s \in VMs |-> {}]
    /\ mail = [s \in VMs |-> Nobody]
    /\ task = [s \in VMs |-> Nobody]
    /\ place = [s \in VMs |-> "wait"]
    /\ faults = MaxFaults

Goto(a, state) == thread' = [thread EXCEPT ![a] = state]

-----------------------------------------------------------------------------
(* main().                                                                  *)

\* The storage VM boots, and the main VM is created and linked to it.  A
\* storage program that polls a listening socket also counts as waiting.
BootStorage ==
    /\ main = "storage"
    /\ IF config.storage
       THEN /\ storage' = [storage EXCEPT ![Main] = "paused"]
            /\ \E p \in {"wait", "poll"} : place' = [place EXCEPT ![Main] = p]
            /\ remote' = [remote EXCEPT ![Main] = Main]
       ELSE UNCHANGED <<storage, place, remote>>
    /\ main' = "vm"
    /\ Goto(Main, "guest")
    /\ UNCHANGED <<config, inside, mail, task, faults>>

\* The storage program ends or does not wait in time: main() returns 1.
StorageDoesNotWait ==
    /\ main = "storage" /\ config.storage
    /\ main' = "exited"
    /\ UNCHANGED <<config, remote, thread, vms, faults>>

\* The main VM waits for requests: main() goes on with it or forks it.
VMWaits ==
    /\ main = "vm" /\ thread[Main] = "guest"
    /\ \/ /\ config.just_one_vm
          /\ main' = "single"
          /\ UNCHANGED thread
       \/ /\ ~config.just_one_vm /\ config.storage_1_to_1 /\ ~config.storage
          /\ main' = "exited"
          /\ Goto(Main, "exited")
       \/ /\ ~config.just_one_vm /\ (config.storage_1_to_1 => config.storage)
          /\ main' = "fork"
          /\ Goto(Main, "exited")
    /\ UNCHANGED <<config, remote, vms, faults>>

\* The thread of request VM f forks it from the main VM, and a storage VM for
\* it from the storage VM.
CreateFork(f) ==
    /\ main = "fork" /\ thread[f] = "none"
    /\ Goto(f, "guest")
    /\ IF config.storage /\ config.storage_1_to_1
       THEN /\ remote' = [remote EXCEPT ![f] = f]
            /\ storage' = [storage EXCEPT ![f] = storage[Main]]
            /\ mail' = [mail EXCEPT ![f] = mail[Main]]
            /\ place' = [place EXCEPT ![f] = place[Main]]
       ELSE /\ remote' = [remote EXCEPT ![f] = remote[Main]]
            /\ UNCHANGED <<storage, mail, place>>
    /\ UNCHANGED <<config, main, inside, task, faults>>

\* An exception while the fork is created ends its thread.
CreateForkFails(f) ==
    /\ main = "fork" /\ thread[f] = "none"
    /\ Goto(f, "exited")
    /\ UNCHANGED <<link, vms, faults>>

-----------------------------------------------------------------------------
(* sys_remote_resume, in three steps: the handler, the resumption of the    *)
(* storage VM by the thread of request VM a, and its return.                *)

\* The handler.  With a permanent link it writes the buffer to the registers of
\* the storage VM before it resumes it, otherwise a callback does.
RemoteResume(a) ==
    /\ thread[a] = "guest" /\ main # "exited"
    /\ IF remote[a] = Nobody
       THEN Goto(a, "failed") /\ UNCHANGED mail
       ELSE /\ Goto(a, "resume")
            /\ mail' = IF config.storage_ipre_permanent
                       THEN [mail EXCEPT ![remote[a]] = a]
                       ELSE mail
    /\ UNCHANGED <<link, storage, inside, task, place, faults>>

\* A form of Serialized in which the mutex is not taken.
Serialized_never(s) == TRUE

\* remote_serializer lets one thread in; forks of the storage VM have none.
Serialized(s) == s = Main => inside[s] = {}

\* A form of Deliver that leaves the registers as they are.
Deliver_skipped(a, s) == UNCHANGED mail

\* The callback of ipre_remote_resume_now.
Deliver(a, s) ==
    mail' = IF config.storage_ipre_permanent THEN mail ELSE [mail EXCEPT ![s] = a]

\* The thread enters the storage VM, which takes what its registers hold as its
\* task, unless it was not waiting for one.
Enter(a) ==
    LET s == remote[a] IN
    /\ thread[a] = "resume"
    /\ Serialized(s)
    /\ Goto(a, "inside")
    /\ Deliver(a, s)
    /\ inside' = [inside EXCEPT ![s] = @ \cup {a}]
    /\ storage' = [storage EXCEPT ![s] = "busy"]
    /\ task' = [task EXCEPT ![s] = IF place[s] = "wait" THEN mail'[s] ELSE Nobody]
    /\ UNCHANGED <<link, place, faults>>

\* The thread leaves the storage VM and the mutex.
Leave(a, state) ==
    /\ Goto(a, state)
    /\ inside' = [inside EXCEPT ![remote[a]] = @ \ {a}]

\* sys_wait_for_storage_task_paused stops the storage VM.
WaitPaused(a) ==
    LET s == remote[a] IN
    /\ thread[a] = "inside"
    /\ Leave(a, "guest")
    /\ storage' = [storage EXCEPT ![s] = "paused"]
    /\ place' = [place EXCEPT ![s] = "wait"]
    /\ UNCHANGED <<link, mail, task, faults>>

\* A form of StorageThrows that leaves the mutex locked.
StorageThrows_locked(a) ==
    /\ thread[a] = "inside" /\ faults > 0
    /\ faults' = faults - 1
    /\ Goto(a, "failed")
    /\ storage' = [storage EXCEPT ![remote[a]] = "paused"]
    /\ place' = [place EXCEPT ![remote[a]] = "lost"]
    /\ UNCHANGED <<link, inside, mail, task>>

\* An exception out of the storage VM, which may not call sys_remote_resume
\* itself, reaches the thread; the storage VM stays where it was.
StorageThrows(a) ==
    /\ thread[a] = "inside" /\ faults > 0
    /\ faults' = faults - 1
    /\ Leave(a, "failed")
    /\ storage' = [storage EXCEPT ![remote[a]] = "paused"]
    /\ place' = [place EXCEPT ![remote[a]] = "lost"]
    /\ UNCHANGED <<link, mail, task>>

\* A form of EndsProgram in which main() goes on with a VM that failed to boot.
EndsProgram_never == FALSE

\* initialize() throws on to main(), which returns 1.
EndsProgram == main = "vm"

\* A fork that failed is reset, the main VM of a single VM server is run again,
\* and one that still boots ends the program.
Recover(a) ==
    /\ thread[a] = "failed"
    /\ IF EndsProgram
       THEN main' = "exited" /\ Goto(a, "exited")
       ELSE Goto(a, "guest") /\ UNCHANGED main
    /\ UNCHANGED <<config, remote, vms, faults>>

-----------------------------------------------------------------------------

Next ==
    \/ BootStorage
    \/ StorageDoesNotWait
    \/ VMWaits
    \/ \E f \in Forks : CreateFork(f) \/ CreateForkFails(f)
    \/ \E a \in VMs :
          RemoteResume(a) \/ Enter(a) \/ WaitPaused(a) \/ StorageThrows(a) \/ Recover(a)

Spec == Init /\ [][Next]_vars

\* The kernel schedules every thread, and the storage program gets done with a
\* task; nothing is assumed of which thread a mutex goes to.
FairSpec ==
    /\ Spec
    /\ \A a \in VMs : WF_vars(Enter(a)) /\ WF_vars(WaitPaused(a) \/ StorageThrows(a))

-----------------------------------------------------------------------------
(* Properties.                                                              *)

\* Request VMs write to the registers of a storage VM they share without the
\* mutex.
Unserialized == config.storage_ipre_permanent /\ ~config.storage_1_to_1

\* A storage VM that a thread is inside works on the buffer of that thread's VM
\* and of no other, if it was waiting for a task when it was resumed.
WorksForCaller ==
    \A s \in VMs : \A a \in inside[s] :
        inside[s] = {a} /\ (place[s] = "wait" => task[s] = a)

\* The same except for a permanent link to a shared storage VM.
SerializedWorksForCaller == Unserialized \/ WorksForCaller

\* The storage VM that others are forked from is paused with no thread inside,
\* and not where an exception left it: a main VM whose call failed is never
\* forked.
ForkedWhilePaused ==
    main = "fork" /\ config.storage_1_to_1 =>
        storage[Main] = "paused" /\ inside[Main] = {} /\ place[Main] # "lost"

\* A call that waits finds its storage VM paused and free, or waits for the one
\* thread that runs it: no thread that failed or went on keeps the mutex, no
\* storage VM is left running by nobody, and nobody inside waits for another
\* storage VM in turn.
CallsCanGoOn ==
    \A a \in VMs : thread[a] = "resume" =>
        LET s == remote[a] IN
        \/ storage[s] = "paused" /\ inside[s] = {}
        \/ storage[s] = "busy" /\ \E b \in VMs \ {a} : inside[s] = {b} /\ thread[b] = "inside"

\* The handler of the call, the mutex and the callback are invisible.
Calls == INSTANCE RemoteCalls WITH
    Callers <- VMs,
    Servers <- VMs,
    mixed <- Unserialized,
    asked <- {a \in VMs : thread[a] = "resume"},
    serving <- inside,
    waiting <- [s \in VMs |-> place[s] = "wait"],
    work <- task

\* sys_remote_resume and sys_wait_for_storage_task_paused keep the promise of
\* RemoteCalls, also when storage VMs fail, callers are reset or end, and
\* storage VMs are forked.
ImplementsCalls == Calls!Spec

-----------------------------------------------------------------------------
(* The inductive invariant behind them.                                     *)

\* No fork runs before main() starts it, and the main VM not after.
Booting ==
    /\ main \in {"storage", "vm", "single"} => \A f \in Forks : thread[f] = "none"
    /\ main = "storage" => thread[Main] = "none" /\ place[Main] = "wait"
    /\ main = "fork" => thread[Main] = "exited"
    /\ main \in {"vm", "fork"} /\ config.storage => storage[Main] # "none"
    /\ main = "vm" /\ place[Main] = "lost" => thread[Main] = "failed"
    /\ main = "fork" /\ config.storage_1_to_1 => config.storage /\ place[Main] # "lost"

\* A request VM uses the storage VM of main() or its own.
Linked ==
    /\ remote[Main] \in {Main, Nobody}
    /\ ~config.storage => \A a \in VMs : remote[a] = Nobody
    /\ \A f \in Forks :
          IF config.storage /\ config.storage_1_to_1
          THEN thread[f] \in {"none", "exited"} \/ remote[f] = f
          ELSE remote[f] \in {Main, Nobody}
    /\ \A a \in VMs : thread[a] \in {"resume", "inside"} => remote[a] # Nobody
    /\ \A a \in VMs : remote[a] # Nobody => storage[remote[a]] # "none"

\* At most one thread is inside a storage VM, and its call is under way.
Exclusive ==
    /\ \A s, a \in VMs : a \in inside[s] <=> thread[a] = "inside" /\ remote[a] = s
    /\ \A s \in VMs : \A a, b \in inside[s] : a = b
    /\ \A s \in VMs : storage[s] = "busy" <=> inside[s] # {}

\* A storage VM works on, or will be given, the buffer of its caller.
Delivered ==
    ~Unserialized =>
        /\ \A s \in VMs : \A a \in inside[s] : place[s] = "wait" => task[s] = a
        /\ config.storage_ipre_permanent =>
              \A a \in VMs : thread[a] = "resume" => mail[remote[a]] = a

\* No interleaving of calls, failures and forks lets two threads run one
\* storage VM, mixes up buffers, or forks a storage VM in mid-call.
StorageInv == TypeOK /\ Booting /\ Linked /\ Exclusive /\ Delivered

\* A request VM with a storage VM of its own gets every call answered or fails.
OwnCallReturns ==
    \A a \in VMs : thread[a] = "resume" /\ (config.storage_1_to_1 \/ main \in {"vm", "single"})
                   ~> thread[a] \in {"guest", "failed"}

=============================================================================
