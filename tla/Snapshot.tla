------------------------------ MODULE Snapshot ------------------------------
(***************************************************************************)
(* The snapshot file (--snapshot-file): the first server that boots its    *)
(* guest saves the paused VM and what is needed to listen again, and every *)
(* later server loads it instead of booting.  A server can be killed       *)
(* between any two writes; the file is mapped, so what was written stays.  *)
(*                                                                         *)
(* The kernel's sockets, and the part of the file that tinykvm writes and  *)
(* restores (memory, registers, epoll entries), are modelled from how they *)
(* are used here.                                                          *)
(***************************************************************************)
EXTENDS Naturals, Sequences

CONSTANTS
    Inet4,       \* addresses of IPv4 sockets the guest may listen on
    Inet6,       \* of IPv6 sockets
    Unix,        \* paths of UNIX sockets
    AnyPort,     \* an IPv4 socket on a port that the kernel picked
    Closed,      \* m_tracked_client_fd is no longer open
    Vfds,        \* descriptors that may be in an epoll set
    Zero,        \* the one with the number 0
    Restorable,  \* those that translate() still knows after a restore
    Epolls,      \* the guest's epoll sets
    NoVM,        \* there is no snapshot, or no VM
    MaxFaults    \* bound on kills, and on calls that fail for no reason of the server's

Inet == Inet4 \cup Inet6
Addrs == Inet \cup Unix

ASSUME AddrsAssumption ==
    /\ Inet4 \cap Inet6 = {} /\ Inet \cap Unix = {}
    /\ AnyPort \notin Addrs /\ Closed \notin Addrs /\ AnyPort # Closed
ASSUME VfdsAssumption == Restorable \subseteq Vfds /\ Zero \in Vfds
ASSUME FaultsAssumption == MaxFaults \in Nat

\* A form of SaveOrder that leaves the length of the address to getsockname().
SaveOrder_no_length ==
    <<"poll_method", "tracked_client_vfd", "backlog", "domain", "type", "protocol",
      "reuseaddr", "flags", "addr">>

\* The fields of AppSnapshotState in the order save_state() stores them.
SaveOrder ==
    <<"poll_method", "tracked_client_vfd", "backlog", "domain", "type", "protocol",
      "reuseaddr", "flags", "addr_len", "addr">>

\* The paused VM: what it waits in, its tracked listening socket, the epoll
\* entries tinykvm keeps and the epoll sets in which the kernel watches that
\* socket.
VM == [poll_method : {"Undefined", "Blocking", "Poll", "Epoll"},
       tracked_client_vfd : Vfds, reuseaddr : BOOLEAN,
       addr : Addrs \cup {AnyPort, Closed},
       epoll_fds : [Epolls -> SUBSET Vfds], watched : SUBSET Epolls]

ASSUME NoVMAssumption == NoVM \notin VM

VARIABLES
    server,      \* where the process is
    vm,          \* its main VM
    image,       \* the VM in the file
    stored,      \* how many fields of AppSnapshotState are in the file
    use,         \* whether an address can be bound
    lost,        \* history: the epoll sets load_state() failed to add its socket to
    faults       \* how many faults may still come

file == <<image, stored>>
vars == <<server, vm, file, use, lost, faults>>

TypeOK ==
    /\ server \in {"down", "booted", "save", "serve", "load", "restored"}
    /\ vm \in VM \cup {NoVM}
    /\ image \in VM \cup {NoVM}
    /\ stored \in 0 .. Len(SaveOrder)
    /\ use \in [Addrs -> {"free", "lingering", "taken"}]
    /\ lost \subseteq Epolls
    /\ faults \in Nat

Init ==
    /\ server = "down"
    /\ vm = NoVM
    /\ image = NoVM
    /\ stored = 0
    /\ use = [a \in Addrs |-> "free"]
    /\ lost = {}
    /\ faults = MaxFaults

Written == {SaveOrder[i] : i \in 1 .. stored}

-----------------------------------------------------------------------------
(* The kernel.                                                              *)

\* bind() succeeds on a free address, and with SO_REUSEADDR on one that old
\* connections still use.
Bindable(a, reuseaddr) == use[a] = "free" \/ (use[a] = "lingering" /\ reuseaddr)

Bind(a) == use' = IF a \in Addrs THEN [use EXCEPT ![a] = "taken"] ELSE use

\* The server ends.  Its connections may linger; a UNIX path stays bound.
Down ==
    /\ server' = "down"
    /\ vm' = NoVM
    /\ lost' = {}
    /\ \E left \in {"free", "lingering"} :
          use' = [a \in Addrs |-> IF a \in Inet /\ vm # NoVM /\ a = vm.addr THEN left ELSE use[a]]

\* Old connections time out, or somebody removes the path.
Release(a) ==
    /\ use[a] # "free" /\ (vm # NoVM => vm.addr # a)
    /\ use' = [use EXCEPT ![a] = "free"]
    /\ UNCHANGED <<server, vm, file, lost, faults>>

Fault == faults > 0 /\ faults' = faults - 1

\* The server is killed.
Kill ==
    /\ server # "down"
    /\ Fault
    /\ Down
    /\ UNCHANGED file

-----------------------------------------------------------------------------
(* initialize().                                                            *)

\* A form of HasSnapshotState that never finds one.
HasSnapshotState_never == FALSE

HasSnapshotState == image # NoVM

\* The guest boots, listens and waits, and is warmed up.
Boot ==
    /\ server = "down" /\ ~HasSnapshotState
    /\ \E v \in VM :
          /\ v.poll_method # "Undefined"
          /\ v.poll_method = "Epoll" => v.watched # {}
          /\ v.watched = {e \in Epolls : v.tracked_client_vfd \in v.epoll_fds[e]}
          /\ v.addr \in Addrs /\ Bindable(v.addr, v.reuseaddr)
          /\ vm' = v
          /\ Bind(v.addr)
    /\ server' = "booted"
    /\ UNCHANGED <<file, lost, faults>>

\* During the warmup the guest closed its listening socket, and nothing else got
\* the number.
ListenerCloses ==
    /\ server = "booted" /\ vm.addr # Closed
    /\ vm' = [vm EXCEPT !.addr = Closed, !.watched = {}]
    /\ \E left \in {"free", "lingering", "taken"} :
          /\ left = "taken" <=> vm.addr \in Unix
          /\ use' = [use EXCEPT ![vm.addr] = left]
    /\ UNCHANGED <<server, file, lost, faults>>

\* save_state(): the memory and registers go first, and with them the mark that
\* the file has a state.
SaveSnapshot ==
    /\ server = "booted"
    /\ server' = "save"
    /\ image' = vm
    /\ stored' = 0
    /\ UNCHANGED <<vm, use, lost, faults>>

\* The next field.  Those after the backlog are asked of the socket.
SaveField ==
    /\ server = "save" /\ stored < Len(SaveOrder)
    /\ SaveOrder[stored + 1] = "domain" => vm.addr # Closed
    /\ stored' = stored + 1
    /\ UNCHANGED <<server, vm, image, use, lost, faults>>

\* There is no user area, or a call that asks the socket fails, which the first
\* one does if the socket is closed.  main() returns 1.
SaveThrows ==
    /\ server = "save" /\ stored < Len(SaveOrder)
    /\ \/ stored = 0
       \/ SaveOrder[stored + 1] \in {"domain", "type", "protocol", "reuseaddr", "flags", "addr"}
    /\ Down
    /\ UNCHANGED <<file, faults>>

SaveReturns ==
    /\ server = "save" /\ stored = Len(SaveOrder)
    /\ server' = "serve"
    /\ UNCHANGED <<vm, file, use, lost, faults>>

\* A server finds a state in the file.
InitializeFromFile ==
    /\ server = "down" /\ HasSnapshotState
    /\ server' = "load"
    /\ UNCHANGED <<vm, file, use, lost, faults>>

\* A field as load_state() reads it: the file is zero where nothing was stored.
Loaded(field, zero) == IF field \in Written THEN image[field] ELSE zero

\* Where the new socket can be bound.  socket() refuses a zero domain or type
\* and bind() a zero length; a zero address is any port to an IPv4 socket, and no
\* address to the others.
BindsTo ==
    {a \in {Loaded("addr", IF image.addr \in Inet4 THEN AnyPort ELSE Closed)} :
        /\ {"domain", "type", "addr_len"} \subseteq Written
        /\ \/ a = AnyPort
           \/ a \in Addrs /\ Bindable(a, Loaded("reuseaddr", FALSE))}

\* A form of Kept that also leaves the entries with no descriptor behind them.
Kept_all(vfds, listener) == vfds

\* The entries of an epoll set whose descriptors are still there.
Kept(vfds, listener) == vfds \cap (Restorable \cup {listener})

\* The VM with its listening socket bound to a: the socket gets the old virtual
\* descriptor and is added to the epoll sets that hold that, unless epoll_ctl()
\* fails there, which nothing looks at.
Restored(a, listener, unadded) ==
    [poll_method |-> Loaded("poll_method", "Undefined"),
     tracked_client_vfd |-> listener,
     reuseaddr |-> Loaded("reuseaddr", FALSE),
     addr |-> a,
     epoll_fds |-> [e \in Epolls |-> Kept(image.epoll_fds[e], listener)],
     watched |-> {e \in Epolls \ unadded : listener \in image.epoll_fds[e]}]

\* load_state().
LoadState ==
    /\ server = "load"
    /\ \/ lost' = {} /\ UNCHANGED faults
       \/ lost' \in SUBSET Epolls /\ Fault
    /\ \E a \in BindsTo :
          /\ Bind(a)
          /\ vm' = Restored(a, Loaded("tracked_client_vfd", Zero), lost')
    /\ server' = "restored"
    /\ UNCHANGED file

\* It throws: the file gives nothing that can be bound; or there is no user area,
\* or any of its calls fails.  main() returns 1.
LoadThrows ==
    /\ server = "load"
    /\ \/ BindsTo = {} /\ UNCHANGED faults
       \/ Fault
    /\ Down
    /\ UNCHANGED file

-----------------------------------------------------------------------------

Next ==
    \/ Boot \/ ListenerCloses \/ SaveSnapshot \/ SaveField \/ SaveThrows \/ SaveReturns
    \/ InitializeFromFile \/ LoadState \/ LoadThrows
    \/ Kill
    \/ \E a \in Addrs : Release(a)

Spec == Init /\ [][Next]_vars

\* Somebody starts the server again whenever it is down, a server that runs goes
\* on, and old connections time out.  Nothing removes the path of a UNIX socket.
FairSpec ==
    /\ Spec
    /\ WF_vars(InitializeFromFile)
    /\ WF_vars(LoadState \/ LoadThrows)
    /\ \A a \in Inet : WF_vars(Release(a))

-----------------------------------------------------------------------------
(* Properties.                                                              *)

\* A server whose save was cut short before the address but after its length:
\* an IPv4 socket then gets a port nobody asked for.
AddressMissing == stored = Len(SaveOrder) - 1 /\ image.addr \in Inet4

\* A server that loaded a VM waits in the same call and on the same descriptor
\* as the VM that was saved, has that descriptor in the same epoll sets, and
\* there the new socket is watched unless epoll_ctl() failed; it has no entry
\* left that it cannot translate, and listens on the same address unless that is
\* missing.  A file that lacks more is never served from.
RestoredAsSaved ==
    server = "restored" =>
        /\ vm.poll_method = image.poll_method
        /\ vm.tracked_client_vfd = image.tracked_client_vfd
        /\ {e \in Epolls : vm.tracked_client_vfd \in vm.epoll_fds[e]} = image.watched
        /\ vm.watched = image.watched \ lost
        /\ \A e \in Epolls : vm.epoll_fds[e] \subseteq Restorable \cup {vm.tracked_client_vfd}
        /\ vm.addr = IF AddressMissing THEN AnyPort ELSE image.addr

\* Once a VM is in the file no server replaces it, complete or not: only the
\* server that put it there goes on to store fields.
ImageKept ==
    [][image # NoVM => /\ image' = image
                       /\ stored' # stored => server = "save" /\ stored' = stored + 1]_vars

\* A server whose snapshot is complete and listens on the Internet is restored
\* sooner or later whenever it goes down, if kills and failing calls come to an
\* end: an address still in use is only an obstacle for a time.  (A UNIX socket
\* does not come back: its own path is in the way.)
ComesBack ==
    server = "down" /\ stored = Len(SaveOrder) /\ image.addr \in Inet ~> server = "restored"

-----------------------------------------------------------------------------
(* The inductive invariant behind them.                                     *)

\* The process has a VM, and the file holds one, when they should.
Phases ==
    /\ server \in {"down", "load"} <=> vm = NoVM
    /\ image = NoVM => stored = 0 /\ server \in {"down", "booted"}
    /\ server = "booted" => image = NoVM
    /\ server \in {"save", "serve"} => vm = image
    /\ server = "serve" => stored = Len(SaveOrder)

\* A VM that waits on a socket that is open watches it where it registered it,
\* and one whose socket was closed is never stored in full.
Sound(v) ==
    /\ v.addr \in Addrs => v.watched = {e \in Epolls : v.tracked_client_vfd \in v.epoll_fds[e]}
    /\ v.addr # AnyPort

\* No sequence of starts, kills and failures makes a server restore a VM that
\* no server saved.
SnapshotInv ==
    /\ TypeOK
    /\ Phases
    /\ server = "booted" => Sound(vm)
    /\ image # NoVM => Sound(image) /\ (image.addr = Closed => stored < 4)

=============================================================================
