--------------------------- MODULE SnapshotProofs ---------------------------
(* Proofs about Snapshot, for every set of addresses, descriptors and epoll  *)
(* sets and every number of faults.                                          *)
EXTENDS Snapshot, TLAPS

USE AddrsAssumption, VfdsAssumption, FaultsAssumption, NoVMAssumption

\* There are ten fields.
LEMMA Fields == Len(SaveOrder) = 10 /\ SaveOrder[4] = "domain"
    BY DEF SaveOrder

\* Only a field that was stored can be read.
LEMMA AddressLast ==
    ASSUME stored \in 0 .. Len(SaveOrder)
    PROVE  /\ "addr" \in Written <=> stored = 10
           /\ "addr_len" \in Written <=> stored >= 9
           /\ stored >= 9 => {"poll_method", "tracked_client_vfd", "reuseaddr"} \subseteq Written
    BY Fields DEF Written, SaveOrder

\* load_state() puts a VM together.
LEMMA LoadTyped ==
    ASSUME TypeOK, Phases, LoadState
    PROVE  vm' \in VM /\ use' \in [Addrs -> {"free", "lingering", "taken"}]
<1>1. image \in VM
    BY DEF LoadState, TypeOK, Phases
<1>2. PICK a \in BindsTo :
         /\ Bind(a)
         /\ vm' = Restored(a, Loaded("tracked_client_vfd", Zero), lost')
    BY DEF LoadState
<1>3. a \in Addrs \cup {AnyPort}
    BY <1>2 DEF BindsTo
<1>4. /\ Loaded("poll_method", "Undefined") \in {"Undefined", "Blocking", "Poll", "Epoll"}
      /\ Loaded("tracked_client_vfd", Zero) \in Vfds
      /\ Loaded("reuseaddr", FALSE) \in BOOLEAN
    BY <1>1 DEF Loaded, VM
<1>5. vm' \in VM
    BY <1>1, <1>2, <1>3, <1>4 DEF Restored, Kept, VM
<1> QED
    BY <1>2, <1>5 DEF Bind, TypeOK

\* The state stays well-formed.
LEMMA SnapshotTyped ==
    ASSUME TypeOK, Phases, [Next]_vars
    PROVE  TypeOK'
<1>0. Len(SaveOrder) = 10
    BY Fields
<1>1. CASE Boot
    BY <1>0, <1>1 DEF Boot, HasSnapshotState, Bind, file, TypeOK, Phases, VM, Addrs
<1>2. CASE ListenerCloses
    <2>1. vm \in VM
        BY <1>2 DEF ListenerCloses, TypeOK, Phases
    <2>2. vm' \in VM
        BY <1>2, <2>1 DEF ListenerCloses, VM
    <2>3. use' \in [Addrs -> {"free", "lingering", "taken"}]
        BY <1>2 DEF ListenerCloses, TypeOK
    <2> QED
        BY <1>2, <2>2, <2>3 DEF ListenerCloses, TypeOK, file
<1>3. CASE SaveSnapshot
    BY <1>0, <1>3 DEF SaveSnapshot, TypeOK, Phases, VM, Addrs
<1>4. CASE SaveField
    BY <1>0, <1>4 DEF SaveField, TypeOK, Phases, VM, Addrs
<1>5. CASE SaveThrows
    BY <1>0, <1>5 DEF SaveThrows, Down, file, TypeOK, Phases, VM, Addrs
<1>6. CASE SaveReturns
    BY <1>0, <1>6 DEF SaveReturns, file, TypeOK, Phases, VM, Addrs
<1>7. CASE InitializeFromFile
    BY <1>0, <1>7 DEF InitializeFromFile, HasSnapshotState, file, TypeOK, Phases, VM, Addrs
<1>8. CASE LoadState
    BY <1>8, LoadTyped DEF LoadState, Fault, TypeOK, file
<1>9. CASE LoadThrows
    BY <1>0, <1>9 DEF LoadThrows, Fault, Down, file, TypeOK, Phases, VM, Addrs
<1>10. CASE Kill
    BY <1>0, <1>10 DEF Kill, Fault, Down, file, TypeOK, Phases, VM, Addrs
<1>11. ASSUME NEW a \in Addrs, Release(a) PROVE TypeOK'
    BY <1>0, <1>11 DEF Release, file, TypeOK, Phases, VM, Addrs
<1>12. CASE UNCHANGED vars
    BY <1>0, <1>12 DEF vars, file, TypeOK, Phases, VM, Addrs
<1> QED
    BY <1>1, <1>2, <1>3, <1>4, <1>5, <1>6, <1>7, <1>8, <1>9, <1>10, <1>11, <1>12 DEF Next

\* Every action keeps the phases in step, and the VMs sound.
LEMMA SnapshotInductive ==
    ASSUME SnapshotInv, [Next]_vars
    PROVE  SnapshotInv'
<1>0. TypeOK' /\ Len(SaveOrder) = 10 /\ SaveOrder[4] = "domain"
    BY SnapshotTyped, Fields DEF SnapshotInv
<1> USE DEF SnapshotInv, TypeOK, Phases, Sound
<1>1. CASE Boot
    BY <1>0, <1>1 DEF Boot, HasSnapshotState, Bind, file
<1>2. CASE ListenerCloses
    <2>1. vm \in VM /\ vm' = [vm EXCEPT !.addr = Closed, !.watched = {}]
        BY <1>2 DEF ListenerCloses
    <2>2. vm' \in VM /\ vm'.addr = Closed
        BY <2>1 DEF VM
    <2> QED
        BY <1>0, <1>2, <2>2 DEF ListenerCloses, file
<1>3. CASE SaveSnapshot
    BY <1>0, <1>3 DEF SaveSnapshot
<1>4. CASE SaveField
    BY <1>0, <1>4 DEF SaveField
<1>5. CASE SaveThrows
    BY <1>0, <1>5 DEF SaveThrows, Down, file
<1>6. CASE SaveReturns
    BY <1>0, <1>6 DEF SaveReturns, file
<1>7. CASE InitializeFromFile
    BY <1>0, <1>7 DEF InitializeFromFile, HasSnapshotState, file
<1>8. CASE LoadState
    BY <1>0, <1>8, LoadTyped DEF LoadState, file
<1>9. CASE LoadThrows
    BY <1>0, <1>9 DEF LoadThrows, Down, file
<1>10. CASE Kill
    BY <1>0, <1>10 DEF Kill, Down, file
<1>11. ASSUME NEW a \in Addrs, Release(a) PROVE SnapshotInv'
    BY <1>0, <1>11 DEF Release, file
<1>12. CASE UNCHANGED vars
    BY <1>0, <1>12 DEF vars, file
<1> QED
    BY <1>1, <1>2, <1>3, <1>4, <1>5, <1>6, <1>7, <1>8, <1>9, <1>10, <1>11, <1>12 DEF Next

\* However servers are killed and fail, the file and the process hold VMs that
\* a guest booted, and a socket that was closed is never taken for one that
\* can be bound again.
THEOREM SnapshotInvariant == Spec => []SnapshotInv
<1>1. Init => SnapshotInv
    BY Fields DEF Init, SnapshotInv, TypeOK, Phases, Sound
<1>2. SnapshotInv /\ [Next]_vars => SnapshotInv'
    BY SnapshotInductive
<1> QED
    BY <1>1, <1>2, PTL DEF Spec

\* load_state() gives back what save_state() saved, or does not return.
LEMMA LoadRestores ==
    ASSUME SnapshotInv, LoadState
    PROVE  RestoredAsSaved'
<1>1. image \in VM /\ Sound(image) /\ (image.addr = Closed => stored < 4)
    BY DEF SnapshotInv, LoadState, TypeOK, Phases
<1>2. PICK a \in BindsTo : vm' = Restored(a, Loaded("tracked_client_vfd", Zero), lost')
    BY DEF LoadState
<1>3. stored \in {9, 10}
    BY <1>2, AddressLast, Fields DEF BindsTo, SnapshotInv, TypeOK
<1>4. image.addr \in Addrs /\ image.watched = {e \in Epolls : image.tracked_client_vfd \in image.epoll_fds[e]}
    BY <1>1, <1>3 DEF Sound, VM
<1>5. /\ Loaded("poll_method", "Undefined") = image.poll_method
      /\ Loaded("tracked_client_vfd", Zero) = image.tracked_client_vfd
    BY <1>3, AddressLast, Fields DEF Loaded
<1>6. a = IF AddressMissing THEN AnyPort ELSE image.addr
    <2>1. a = Loaded("addr", IF image.addr \in Inet4 THEN AnyPort ELSE Closed) /\ a # Closed
        BY <1>2 DEF BindsTo
    <2>2. "addr" \in Written <=> stored = 10
        BY <1>3, AddressLast, Fields
    <2>3. CASE stored = 10
        BY <2>1, <2>2, <2>3, Fields DEF Loaded, AddressMissing
    <2>4. CASE stored = 9
        BY <2>1, <2>2, <2>4, Fields DEF Loaded, AddressMissing
    <2> QED
        BY <1>3, <2>3, <2>4
<1>7. image' = image /\ stored' = stored
    BY DEF LoadState, file
<1> QED
    BY <1>1, <1>2, <1>4, <1>5, <1>6, <1>7 DEF RestoredAsSaved, Restored, Kept, AddressMissing, VM

\* initialize_from_file(): a restored server is the saved one, for every number
\* of starts and kills before it.
THEOREM SnapshotRestoredAsSaved == Spec => []RestoredAsSaved
<1>1. Init => RestoredAsSaved
    BY DEF Init, RestoredAsSaved
<1>2. SnapshotInv /\ RestoredAsSaved /\ [Next]_vars => RestoredAsSaved'
    <2> SUFFICES ASSUME SnapshotInv, RestoredAsSaved, [Next]_vars
                 PROVE  RestoredAsSaved'
        OBVIOUS
    <2>1. CASE LoadState
        BY <2>1, LoadRestores
    <2>2. CASE UNCHANGED <<server, vm, file, lost>>
        BY <2>2 DEF RestoredAsSaved, AddressMissing, file
    <2>3. CASE server' # "restored"
        BY <2>3 DEF RestoredAsSaved
    <2> QED
        BY <2>1, <2>2, <2>3 DEF Next, vars, Boot, ListenerCloses, SaveSnapshot, SaveField, SaveThrows,
           SaveReturns, InitializeFromFile, LoadThrows, Kill, Down, Release
<1> QED
    BY <1>1, <1>2, SnapshotInvariant, PTL DEF Spec

\* save_state() and initialize(): no server overwrites the snapshot of another.
THEOREM SnapshotImageKept == Spec => ImageKept
<1>1. SnapshotInv /\ [Next]_vars =>
         [image # NoVM => /\ image' = image
                          /\ stored' # stored => server = "save" /\ stored' = stored + 1]_vars
    BY DEF SnapshotInv, Phases, Next, vars, file, Boot, ListenerCloses, SaveSnapshot, SaveField,
       SaveThrows, SaveReturns, InitializeFromFile, LoadState, LoadThrows, Kill, Release, HasSnapshotState
<1> QED
    BY <1>1, SnapshotInvariant, PTL DEF Spec, ImageKept

=============================================================================
