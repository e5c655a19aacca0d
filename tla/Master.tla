------------------------------- MODULE Master -------------------------------
(***************************************************************************)
(* The master VM on its way to being forked: VirtualMachine::initialize    *)
(* runs the guest until it waits on a listening socket, warmup() lets it   *)
(* serve connections of the warmup client thread, and main() goes on to    *)
(* fork it, runs it for ever if it is to be the only VM, or ends the       *)
(* process.  The guest, the warmup client and visitors (clients of the     *)
(* service, which can connect as soon as the guest listens) run            *)
(* concurrently.                                                           *)
(*                                                                         *)
(* A virtual descriptor is its number: what the guest polls may hold the   *)
(* number of a socket that is closed, or that stands for something else by *)
(* then.  Requests and responses on a connection are left out: the client  *)
(* ends a connection when the guest ends its side of it.                   *)
(***************************************************************************)
EXTENDS Naturals, FiniteSets

CONSTANTS
    Vfds,            \* descriptors of sockets the guest may listen on
    NonBlocking,     \* those it has set non-blocking
    NoVfd,           \* m_tracked_client_vfd = -1
    JustOneVM,       \* just_one_vm
    WarmupConnects,  \* config.warmup_connect_requests
    IntraRequests,   \* config.warmup_intra_connect_requests
    Visitors         \* connections of other clients

ASSUME VfdsAssumption == NonBlocking \subseteq Vfds /\ NoVfd \notin Vfds
ASSUME ConfigAssumption ==
    JustOneVM \in BOOLEAN /\ WarmupConnects \in Nat /\ IntraRequests \in Nat
ASSUME VisitorsAssumption == \A v \in Visitors : v \notin Nat

WarmupConns == 1 .. WarmupConnects
Conns == WarmupConns \cup Visitors

VARIABLES
    host,                       \* where the main thread is
    m_tracked_client_vfd,
    m_poll_method,
    m_waiting_for_requests,
    pause,                      \* the system call the guest is stopped in
    listening,                  \* the guest's listening sockets
    backlog,                    \* connections waiting on each of them
    open,                       \* connections the master has accepted
    gone,                       \* connections the guest has closed
    ended,                      \* connections on which a client receives no more
    accepted_sockets,
    freed_sockets,
    client,                     \* the warmup thread
    request,                    \* its loop index, counting from 1
    serv_addr,                  \* the socket it connects to
    joinable,                   \* warmup_threads holds a thread not joined
    warmup_thread_stop_please,
    status                      \* how the process ended

vm == <<m_tracked_client_vfd, m_poll_method, m_waiting_for_requests, pause>>
net == <<listening, backlog, open, gone, ended>>
counters == <<accepted_sockets, freed_sockets>>
thread == <<client, request, serv_addr, joinable, warmup_thread_stop_please>>
vars == <<host, vm, net, counters, thread, status>>

\* "boot": inside run() in initialize(); "booted": run() returned; "restart":
\* in restart_poll_syscall() of warmup(); "warmup": inside run() in warmup();
\* "warmed": that run() returned; "join": in stop_warmup_client(); "ready":
\* initialize() returned to a main() that goes on; "exited".  Only one VM:
\* "serve": inside run() in main(); "caught": that run() threw; "spin": its
\* program has ended, and run() returns at once whenever it is called again.
HostStates ==
    {"boot", "booted", "restart", "warmup", "warmed", "join", "ready", "exited",
     "serve", "caught", "spin"}
\* main() has a VM that waits for requests, or had one.
Started == host \in {"ready", "serve", "caught", "spin"}
PollMethods == {"Undefined", "Epoll", "Poll", "Blocking"}
Pauses == [call : PollMethods, vfds : SUBSET Vfds]

TypeOK ==
    /\ host \in HostStates
    /\ m_tracked_client_vfd \in Vfds \cup {NoVfd}
    /\ m_poll_method \in PollMethods
    /\ m_waiting_for_requests \in BOOLEAN
    /\ pause \in Pauses
    /\ listening \subseteq Vfds
    /\ backlog \in [Vfds -> SUBSET Conns]
    /\ open \subseteq Conns
    /\ gone \subseteq Conns
    /\ ended \subseteq Conns
    /\ accepted_sockets \subseteq open
    /\ freed_sockets \in Nat
    /\ client \in {"none", "connect", "recv", "done"}
    /\ request \in Nat
    /\ serv_addr \in Vfds \cup {NoVfd}
    /\ joinable \in BOOLEAN
    /\ warmup_thread_stop_please \in BOOLEAN
    /\ status \in {"running", "0", "1", "abort"}

Init ==
    /\ host = "boot"
    /\ m_tracked_client_vfd = NoVfd
    /\ m_poll_method = "Undefined"
    /\ m_waiting_for_requests = FALSE
    /\ pause = [call |-> "Undefined", vfds |-> {}]
    /\ listening = {}
    /\ backlog = [s \in Vfds |-> {}]
    /\ open = {}
    /\ gone = {}
    /\ ended = {}
    /\ accepted_sockets = {}
    /\ freed_sockets = 0
    /\ client = "none"
    /\ request = 1
    /\ serv_addr = NoVfd
    /\ joinable = FALSE
    /\ warmup_thread_stop_please = FALSE
    /\ status = "running"

\* The guest runs.
InGuest == host \in {"boot", "warmup", "serve"}

\* machine().stop() in a callback that found the guest waiting: run() returns
\* with the guest paused in the call.
Stop(call, vfds) ==
    /\ m_waiting_for_requests' = TRUE
    /\ pause' = [call |-> call, vfds |-> vfds]
    /\ host' = IF host = "boot" THEN "booted" ELSE "warmed"

\* An exception reaches main(), which returns 1; the static warmup_threads is
\* destroyed next, and the destructor of a joinable thread ends the process.
Fail ==
    /\ host' = "exited"
    /\ status' = IF joinable THEN "abort" ELSE "1"

\* A single VM whose program ended without waiting for requests: main()
\* returns 0.
ExitNormally ==
    /\ host' = "exited"
    /\ status' = "0"

-----------------------------------------------------------------------------
(* The guest.                                                               *)

\* listening_socket_callback.  It stays installed during the warmup.  A socket
\* that validate_listener refuses never listens.
Listen(s) ==
    /\ InGuest
    /\ s \notin listening
    /\ listening' = listening \cup {s}
    /\ m_tracked_client_vfd' = s
    /\ UNCHANGED <<host, m_poll_method, m_waiting_for_requests, pause, backlog,
                   open, gone, ended, counters, thread, status>>

\* Closing a listening socket resets what waits on it; nothing is untracked.
CloseListener(s) ==
    /\ InGuest
    /\ s \in listening
    /\ listening' = listening \ {s}
    /\ ended' = ended \cup backlog[s]
    /\ backlog' = [backlog EXCEPT ![s] = {}]
    /\ UNCHANGED <<host, vm, open, gone, counters, thread, status>>

\* The set the guest polls holds the tracked listening socket.
Found(vfds) == m_tracked_client_vfd \in vfds

\* epoll_wait_callback and poll_callback of initialize(), when they stop the
\* guest.
BootPoll(call, vfds) ==
    /\ host = "boot"
    /\ Found(vfds)
    /\ m_poll_method' = call
    /\ Stop(call, vfds)
    /\ UNCHANGED <<m_tracked_client_vfd, net, counters, thread, status>>

\* The kernel hands connection c, which waits on socket s, to the guest.
Accept(s, c) ==
    /\ backlog' = [backlog EXCEPT ![s] = @ \ {c}]
    /\ open' = open \cup {c}
    /\ UNCHANGED <<listening, gone, ended>>

\* Whether accept_callback of initialize() stops the guest in accept4.
BootAcceptStops(s) ==
    /\ m_tracked_client_vfd = s
    /\ m_poll_method = "Undefined"
    /\ s \notin NonBlocking

\* accept4 while the guest boots.
BootAccept(s) ==
    /\ host = "boot"
    /\ \/ /\ BootAcceptStops(s)
          /\ m_poll_method' = "Blocking"
          /\ Stop("Blocking", {s})
          /\ UNCHANGED <<m_tracked_client_vfd, net>>
       \/ /\ ~BootAcceptStops(s)
          /\ \E c \in backlog[s] : Accept(s, c)
          /\ UNCHANGED <<host, vm>>
    /\ UNCHANGED <<counters, thread, status>>

\* A form of WarmedUp that is satisfied one connection early.
WarmedUp_early == freed_sockets + 1 >= WarmupConnects

\* The condition under which the callbacks of warmup() stop the guest.
WarmedUp == freed_sockets >= WarmupConnects

\* epoll_wait_callback and poll_callback of warmup(), when they stop the guest.
\* Neither looks at what is polled, nor at m_poll_method.
WarmupPoll(call, vfds) ==
    /\ host = "warmup"
    /\ WarmedUp
    /\ Stop(call, vfds)
    /\ UNCHANGED <<m_tracked_client_vfd, m_poll_method, net, counters, thread, status>>

\* A form of accept_socket_callback that counts a connection when it comes.
accept_socket_callback_counts(s) ==
    \E c \in backlog[s] :
        /\ Accept(s, c)
        /\ freed_sockets' = freed_sockets + 1
        /\ UNCHANGED accepted_sockets

\* accept_socket_callback of warmup().
accept_socket_callback(s) ==
    \E c \in backlog[s] :
        /\ Accept(s, c)
        /\ accepted_sockets' = accepted_sockets \cup {c}
        /\ UNCHANGED freed_sockets

\* accept4 during the warmup: accept_callback stops the guest only if it was
\* blocking in accept4 when it had booted.
WarmupAccept(s) ==
    LET stops == m_poll_method = "Blocking" /\ WarmedUp IN
    /\ host = "warmup"
    /\ \/ /\ stops
          /\ Stop("Blocking", {s})
          /\ UNCHANGED <<m_tracked_client_vfd, m_poll_method, net, counters>>
       \/ /\ ~stops
          /\ accept_socket_callback(s)
          /\ UNCHANGED <<host, vm>>
    /\ UNCHANGED <<thread, status>>

\* accept4 of a VM that is the only one: no callback is left.
ServeAccept(s, c) ==
    /\ host = "serve"
    /\ c \in backlog[s]
    /\ Accept(s, c)
    /\ UNCHANGED <<host, vm, counters, thread, status>>

\* free_fd_callback of warmup() counts the connections it saw accepted.
free_fd_callback(c) ==
    /\ freed_sockets' = freed_sockets + IF c \in accepted_sockets THEN 1 ELSE 0
    /\ accepted_sockets' = accepted_sockets \ {c}

\* The guest closes a connection.
GuestClose(c) ==
    /\ InGuest
    /\ c \in open
    /\ open' = open \ {c}
    /\ gone' = gone \cup {c}
    /\ ended' = ended \cup {c}
    /\ free_fd_callback(c)
    /\ UNCHANGED <<host, vm, listening, backlog, thread, status>>

\* The guest ends its side of a connection with shutdown(2) and keeps the
\* socket.
GuestShutdown(c) ==
    /\ InGuest
    /\ c \in open
    /\ ended' = ended \cup {c}
    /\ UNCHANGED <<host, vm, listening, backlog, open, gone, counters, thread, status>>

\* The program exits: run() returns and the guest is not waiting.
GuestExit ==
    /\ InGuest
    /\ host' = CASE host = "boot" -> "booted"
                 [] host = "warmup" -> "warmed"
                 [] host = "serve" -> "spin"
    /\ UNCHANGED <<vm, net, counters, thread, status>>

\* An exception out of run().  Only the loop for a single VM catches it.
GuestThrows ==
    /\ InGuest
    /\ IF host = "serve"
       THEN host' = "caught" /\ UNCHANGED status
       ELSE Fail
    /\ UNCHANGED <<vm, net, counters, thread>>

\* MachineTimeoutException after config.max_boot_time.
BootTimeout ==
    /\ host = "warmup" \/ (host = "boot" /\ ~JustOneVM)
    /\ Fail
    /\ UNCHANGED <<vm, net, counters, thread>>

-----------------------------------------------------------------------------
(* The main thread.                                                         *)

\* A form of begin_warmup_client that detaches the thread.
begin_warmup_client_detached ==
    \/ UNCHANGED thread
    \/ /\ IntraRequests # 0
       /\ client' = "connect"
       /\ serv_addr' = m_tracked_client_vfd
       /\ UNCHANGED <<request, joinable, warmup_thread_stop_please>>

\* begin_warmup_client: no thread is started if it has nothing to request or the
\* socket's name is not found; else it captures the address of the tracked
\* socket.
begin_warmup_client ==
    \/ UNCHANGED thread
    \/ /\ IntraRequests # 0
       /\ client' = "connect"
       /\ serv_addr' = m_tracked_client_vfd
       /\ joinable' = TRUE
       /\ UNCHANGED <<request, warmup_thread_stop_please>>

\* initialize() after run(), the first half of warmup(), and main() when there
\* is nothing to fork.
BootReturns ==
    /\ host = "booted"
    /\ \/ /\ ~m_waiting_for_requests /\ JustOneVM
          /\ ExitNormally
          /\ UNCHANGED <<m_waiting_for_requests, thread>>
       \/ /\ ~m_waiting_for_requests /\ ~JustOneVM
          /\ Fail
          /\ UNCHANGED <<m_waiting_for_requests, thread>>
       \/ /\ m_waiting_for_requests /\ WarmupConnects = 0
          /\ host' = "ready"
          /\ UNCHANGED <<m_waiting_for_requests, thread, status>>
       \/ /\ m_waiting_for_requests /\ WarmupConnects > 0
          /\ host' = "restart"
          /\ m_waiting_for_requests' = FALSE
          /\ begin_warmup_client
          /\ UNCHANGED status
    /\ UNCHANGED <<m_tracked_client_vfd, m_poll_method, pause, net, counters>>

\* restart_poll_syscall() of warmup(), on the main thread and outside run():
\* accept4 waits for a connection and fails on what does not listen; the others
\* also return on other events.
RestartPoll ==
    /\ host = "restart"
    /\ host' = "warmup"
    /\ \/ /\ m_poll_method = "Blocking"
          /\ \E s \in pause.vfds : accept_socket_callback(s)
       \/ /\ m_poll_method = "Blocking" => pause.vfds \cap listening = {}
          /\ UNCHANGED <<net, counters>>
    /\ UNCHANGED <<vm, thread, status>>

\* warmup() after run(), up to the join in stop_warmup_client().
WarmupReturns ==
    /\ host = "warmed"
    /\ \/ /\ ~m_waiting_for_requests
          /\ Fail
          /\ UNCHANGED warmup_thread_stop_please
       \/ /\ m_waiting_for_requests
          /\ warmup_thread_stop_please' = TRUE
          /\ host' = "join"
          /\ UNCHANGED status
    /\ UNCHANGED <<vm, net, counters, client, request, serv_addr, joinable>>

\* A form of ClientFinished for a thread that is detached.
ClientFinished_unasked == TRUE

ClientFinished == client \in {"none", "done"}

\* The join returns once the thread has.
Join ==
    /\ host = "join"
    /\ ClientFinished
    /\ joinable' = FALSE
    /\ host' = "ready"
    /\ UNCHANGED <<vm, net, counters, client, request, serv_addr,
                   warmup_thread_stop_please, status>>

\* main() with a single VM: restart_poll_syscall() and then run().  The counters
\* of warmup() were its local variables.
SingleStart ==
    /\ host = "ready" /\ JustOneVM
    /\ host' = "serve"
    /\ accepted_sockets' = {} /\ freed_sockets' = 0
    /\ \/ /\ m_poll_method = "Blocking"
          /\ \E s \in pause.vfds : \E c \in backlog[s] : Accept(s, c)
       \/ /\ m_poll_method = "Blocking" => pause.vfds \cap listening = {}
          /\ UNCHANGED net
    /\ UNCHANGED <<vm, thread, status>>

\* A form of SingleAgain that gives up on a VM that failed.
SingleAgain_exits ==
    /\ host = "caught"
    /\ Fail
    /\ UNCHANGED <<vm, net, counters, thread>>

\* The loop runs the VM again as it is.
SingleAgain ==
    /\ host = "caught"
    /\ host' = "serve"
    /\ UNCHANGED <<vm, net, counters, thread, status>>

-----------------------------------------------------------------------------
(* The warmup thread and other clients.                                     *)

\* connect and send in connect_and_send_requests; a socket() or connect() that
\* fails ends the thread's loop.
ClientConnect ==
    /\ client = "connect" /\ host # "exited"
    /\ \/ /\ serv_addr \in listening
          /\ client' = "recv"
          /\ backlog' = [backlog EXCEPT ![serv_addr] = @ \cup {request}]
       \/ /\ client' = "done"
          /\ UNCHANGED backlog
    /\ UNCHANGED <<host, vm, listening, open, gone, ended, counters, request, serv_addr,
                   joinable, warmup_thread_stop_please, status>>

\* recv returned 0 or an error: the connection is over, and the loop goes on
\* unless it reads warmup_thread_stop_please as set.  That flag is a plain bool
\* written by the main thread: a read after the write may still return FALSE.
ClientNext ==
    /\ client = "recv" /\ host # "exited"
    /\ request \in ended
    /\ request' = request + 1
    /\ \E stop_please \in {FALSE, warmup_thread_stop_please} :
          client' = IF stop_please \/ request = WarmupConnects THEN "done" ELSE "connect"
    /\ UNCHANGED <<host, vm, net, counters, serv_addr, joinable,
                   warmup_thread_stop_please, status>>

\* A visitor connects to a socket the guest listens on.
Visit(v, s) ==
    /\ host # "exited" /\ (host = "ready" => JustOneVM)
    /\ s \in listening
    /\ v \notin open \cup ended \cup UNION {backlog[t] : t \in Vfds}
    /\ backlog' = [backlog EXCEPT ![s] = @ \cup {v}]
    /\ UNCHANGED <<host, vm, listening, open, gone, ended, counters, thread, status>>

-----------------------------------------------------------------------------

HostStep == BootReturns \/ RestartPoll \/ WarmupReturns \/ Join \/ SingleStart \/ SingleAgain

ClientStep == ClientConnect \/ ClientNext

GuestStep ==
    \/ \E s \in Vfds : Listen(s) \/ CloseListener(s) \/ BootAccept(s) \/ WarmupAccept(s)
    \/ \E call \in {"Epoll", "Poll"}, vfds \in SUBSET Vfds :
          BootPoll(call, vfds) \/ WarmupPoll(call, vfds)
    \/ \E s \in Vfds, c \in Conns : ServeAccept(s, c)
    \/ \E c \in Conns : GuestClose(c) \/ GuestShutdown(c)
    \/ GuestExit
    \/ GuestThrows

Next ==
    \/ HostStep
    \/ ClientStep
    \/ GuestStep
    \/ BootTimeout
    \/ \E v \in Visitors, s \in Vfds : Visit(v, s)

Spec == Init /\ [][Next]_vars

\* A connection waits on what the main thread polls.
Awaited == \E s \in pause.vfds : backlog[s] # {}

\* The kernel schedules both threads, wakes the main thread when a connection
\* comes, and the boot timer expires; nothing is assumed of the guest or of
\* visitors.
FairSpec ==
    /\ Spec
    /\ WF_vars(BootReturns \/ WarmupReturns \/ Join \/ SingleAgain)
    /\ WF_vars(Awaited /\ (RestartPoll \/ SingleStart))
    /\ WF_vars(ClientStep)
    /\ WF_vars(BootTimeout)

\* The same, and a guest that is the only VM accepts every connection and closes
\* it as long as it runs.
SingleFairSpec ==
    /\ FairSpec
    /\ \A v \in Visitors :
          /\ WF_vars(\E s \in Vfds : ServeAccept(s, v))
          /\ WF_vars(host = "serve" /\ GuestClose(v))

-----------------------------------------------------------------------------
(* Properties.                                                              *)

Waiting == UNION {backlog[s] : s \in Vfds}

\* The warmup client has left every connection of its that the master still has
\* when it is forked, or goes on alone, and none of them waits on its sockets:
\* nobody but real clients is at the other end of what the forks inherit and
\* serve.  It is the join that makes it so.
WarmupLeavesNobody ==
    Started => Waiting \subseteq Visitors /\ open \subseteq Visitors \cup ended

\* No visitor has connected.
Undisturbed == Visitors \cap (open \cup ended \cup Waiting) = {}

\* Unless a visitor came in between, a master that is ready has served every
\* connection of the warmup client to its end: freed_sockets counts them all.
WarmupComplete == Started /\ Undisturbed => WarmupConns \subseteq gone

\* Unless a visitor came in between, the main thread never joins a client that
\* needs the guest, which no longer runs, to go on: the client has returned, or
\* its last connection is closed and it returns by itself.
JoinWaitsForNobody ==
    host = "join" /\ Undisturbed =>
        ClientFinished \/ (client = "recv" /\ request = WarmupConnects /\ request \in gone)

\* Until stop_warmup_client() has joined it, the warmup client makes a process
\* that ends do so in std::terminate, also if the client has returned by then,
\* and nothing else does: no way out of main() joins it.
AbortedByClient ==
    ~Started => (client # "none" <=> IF host = "exited" THEN status = "abort" ELSE joinable)

\* A master that is ready is paused in the system call that its forks redo
\* (restart_poll_syscall goes by m_poll_method), and that call waits on the
\* tracked listening socket.
PausedOnListener ==
    host = "ready" =>
        /\ pause.call = m_poll_method /\ m_poll_method # "Undefined"
        /\ m_tracked_client_vfd \in pause.vfds

\* The main thread gets past the join in stop_warmup_client().
JoinEnds == host = "join" ~> host = "ready"

\* The system call that warmup() restarts has nobody to wake it: it is outside
\* run(), so that max_boot_time does not end it either.
Deserted == host = "restart" /\ ClientFinished

\* As long as no visitor connects, whose connections the callbacks of warmup()
\* would count as the client's, the warmup comes to an end whatever the guest
\* does: the master is ready or the process has ended.  Only a client that was
\* never started, or whose first connection failed, can leave it hanging.
UndisturbedWarmupEnds ==
    host = "restart" ~> host \in {"ready", "exited"} \/ ~Undisturbed \/ Deserted

\* A guest that is run again without a reset after every exception serves the
\* visitors that wait when it fails no more, unless it drops them with their
\* listening socket or its program ends.
SingleServed ==
    <>[](host # "caught") =>
        \A v \in Visitors :
            host = "serve" /\ v \in open \cup Waiting
                ~> v \in gone \/ v \in ended \ open \/ host = "spin"

-----------------------------------------------------------------------------
(* Inductive invariants.                                                    *)

\* Where connections are: in one place only, and of the warmup client's own
\* only the current one is anywhere but over.
Placed ==
    /\ \A s, t \in Vfds : s # t => backlog[s] \cap backlog[t] = {}
    /\ \A s \in Vfds : backlog[s] \cap (open \cup ended) = {}
    /\ open \cap gone = {}
    /\ gone \subseteq ended
    /\ \A c \in open : c \in Visitors \cup ended \/ (client = "recv" /\ c = request)
    /\ \A s \in Vfds : \A c \in backlog[s] :
          c \in Visitors \/ (client = "recv" /\ c = request)
    /\ \A c \in ended : c \in Visitors \/ c < request \/ (client = "recv" /\ c = request)

ClientInRange ==
    /\ host \in {"boot", "booted"} => client = "none"
    /\ Started => client \in {"none", "done"}
    /\ client = "none" => request = 1
    /\ client \in {"connect", "recv"} => request \in WarmupConns

PlacedInv == TypeOK /\ ClientInRange /\ Placed

\* What freed_sockets says of the warmup client as long as no visitor came: it
\* never counts more than the client's own connections that are closed, so that
\* a guest that was stopped after enough of them has closed them all.
Counted ==
    /\ Undisturbed => freed_sockets <= Cardinality(gone \cap WarmupConns)
    /\ host \in {"restart", "warmup"} => ~m_waiting_for_requests
    /\ (host = "warmed" /\ m_waiting_for_requests) \/ host = "join" \/ Started =>
          ~Undisturbed \/ WarmupConns \subseteq gone

\* Connections are in one place only, warmup connections are made one after the
\* other, and the count by which the warmup ends is right.
WarmupInv == PlacedInv /\ Counted

=============================================================================
