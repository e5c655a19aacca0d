------------------------------ MODULE ForkPool ------------------------------
(***************************************************************************)
(* The pool of request VMs: one host thread per fork (main.cpp, the loop   *)
(* over config.concurrency) that creates the fork and then resumes it for  *)
(* ever, the callbacks the forking constructor installs on its descriptor  *)
(* table (vm.cpp), and reset_to/resume_fork.  The accept queue of the      *)
(* listening socket is shared by every fork: the kernel hands each         *)
(* connection to whichever fork calls accept4 first.                       *)
(*                                                                         *)
(* A fork's guest memory is abstracted to the set of connections that have *)
(* left a trace in it since it was last equal to the master's.  vfds of    *)
(* accepted connections are abstracted to the connection itself.           *)
(***************************************************************************)
EXTENDS Naturals, Sequences

CONSTANTS
    Forks,         \* the reqids of the forks, the loop index of main()
    Conns,         \* the connections clients open
    NoConn,        \* m_tracked_client_vfd = -1
    PollMethods,   \* the polling methods the master may have been paused in
    Ephemeral,     \* config.ephemeral
    Verbose,       \* config.verbose
    MaxFaults      \* bound on the number of faults of each kind

\* Exceptions while a fork is created, a guest program that exits, exceptions
\* out of vmresume(), exceptions out of tinykvm's reset_to.
FaultKinds == {"create", "exit", "throw", "reset"}

ASSUME ForksAssumption == Forks \subseteq 0 .. 65534
ASSUME NoConnAssumption == NoConn \notin Conns
ASSUME PollAssumption == PollMethods \subseteq {"Blocking", "Poll", "Epoll"}
ASSUME FlagsAssumption == Ephemeral \in BOOLEAN /\ Verbose \in BOOLEAN
ASSUME FaultsAssumption == MaxFaults \in [FaultKinds -> Nat]

VARIABLES
    thread,                   \* where the host thread of each fork is
    guest,                    \* whether the guest of each fork can still run
    m_poll_method,            \* copied from the master by every fork
    m_tracked_client_vfd,
    m_blocking_connections,
    m_reset_needed,
    memory,                   \* connections with a trace in guest memory
    fds,                      \* connections open in the descriptor table
    queue,                    \* accept queue of the listening socket
    conn,                     \* what became of each connection
    faults                    \* faults that may still happen, by kind

flags == <<m_tracked_client_vfd, m_blocking_connections>>
machine == <<guest, memory, fds, conn>>
vars == <<thread, machine, m_poll_method, flags, m_reset_needed, queue, faults>>

\* "create": constructing the fork; "poll": about to restart the poll system
\* call; "guest": inside vmresume(); "returned": vmresume() returned;
\* "failed": resume_fork() threw; "exited": the thread has returned.
ThreadStates == {"create", "poll", "guest", "returned", "failed", "exited"}
\* "closed": the host descriptor is closed; "leaked": taken off the accept
\* queue and then refused, so that no descriptor table manages it.
ConnStates == {"idle", "queued", "open", "closed", "leaked"}

TypeOK ==
    /\ thread \in [Forks -> ThreadStates]
    /\ guest \in [Forks -> {"alive", "exited"}]
    /\ m_poll_method \in PollMethods
    /\ m_tracked_client_vfd \in [Forks -> Conns \cup {NoConn}]
    /\ m_blocking_connections \in [Forks -> BOOLEAN]
    /\ m_reset_needed \in [Forks -> BOOLEAN]
    /\ memory \in [Forks -> SUBSET Conns]
    /\ fds \in [Forks -> SUBSET Conns]
    /\ queue \in Seq(Conns)
    /\ conn \in [Conns -> ConnStates]
    /\ faults \in [FaultKinds -> Nat]

Init ==
    /\ thread = [f \in Forks |-> "create"]
    /\ guest = [f \in Forks |-> "alive"]
    /\ m_poll_method \in PollMethods
    /\ m_tracked_client_vfd = [f \in Forks |-> NoConn]
    /\ m_blocking_connections = [f \in Forks |-> FALSE]
    /\ m_reset_needed = [f \in Forks |-> FALSE]
    /\ memory = [f \in Forks |-> {}]
    /\ fds = [f \in Forks |-> {}]
    /\ queue = <<>>
    /\ conn = [c \in Conns |-> "idle"]
    /\ faults = MaxFaults

Goto(f, state) == thread' = [thread EXCEPT ![f] = state]

Fault(kind) ==
    /\ faults[kind] > 0
    /\ faults' = [faults EXCEPT ![kind] = @ - 1]

-----------------------------------------------------------------------------
(* The kernel: a client connects, the listening socket queues it.           *)

Connect(c) ==
    /\ conn[c] = "idle"
    /\ conn' = [conn EXCEPT ![c] = "queued"]
    /\ queue' = Append(queue, c)
    /\ UNCHANGED <<thread, guest, memory, fds, m_poll_method, flags,
                   m_reset_needed, faults>>

-----------------------------------------------------------------------------
(* The callbacks of a fork.  Only an ephemeral fork installs them.          *)

\* A form of accept_callback that never refuses.
accept_callback_unguarded(f) == TRUE

\* Whether accept4 is passed on to the kernel: a fork that has its connection
\* answers EAGAIN instead.
accept_callback(f) == ~(Ephemeral /\ m_blocking_connections[f])

\* What happens to a connection the kernel handed to fork f.  A fork that
\* already tracks one refuses it (the kernel has taken it off the queue
\* already); a fork that is not ephemeral manages it and tracks nothing.
accept_socket_callback(f, c) ==
    LET busy == Ephemeral /\ m_tracked_client_vfd[f] # NoConn
        track == Ephemeral /\ ~busy
    IN
    /\ conn' = [conn EXCEPT ![c] = IF busy THEN "leaked" ELSE "open"]
    /\ fds' = IF busy THEN fds ELSE [fds EXCEPT ![f] = @ \cup {c}]
    /\ memory' = IF busy THEN memory ELSE [memory EXCEPT ![f] = @ \cup {c}]
    /\ m_tracked_client_vfd' = IF track
                               THEN [m_tracked_client_vfd EXCEPT ![f] = c]
                               ELSE m_tracked_client_vfd
    /\ m_blocking_connections' = IF track
                                 THEN [m_blocking_connections EXCEPT ![f] = TRUE]
                                 ELSE m_blocking_connections
    /\ UNCHANGED guest

\* Whether vfd c is the tracked connection of a fork that has the callback.
Tracks(f, c) == Ephemeral /\ c = m_tracked_client_vfd[f]

\* The guest closes its tracked connection: the machine stops, and the
\* descriptor is left to the reset.
free_fd_callback(f, c) ==
    /\ Tracks(f, c)
    /\ m_reset_needed' = [m_reset_needed EXCEPT ![f] = TRUE]
    /\ Goto(f, "returned")
    /\ UNCHANGED <<fds, conn>>

\* tinykvm closes any other vfd at once, and every vfd of a fork without the
\* callback.
CloseFd(f, c) ==
    /\ ~Tracks(f, c)
    /\ fds' = [fds EXCEPT ![f] = @ \ {c}]
    /\ conn' = [conn EXCEPT ![c] = "closed"]
    /\ UNCHANGED <<thread, m_reset_needed>>

\* accept4 on the listening socket, when it does not answer EAGAIN.
accept4(f) ==
    /\ accept_callback(f)
    /\ queue # <<>>
    /\ queue' = Tail(queue)
    /\ accept_socket_callback(f, Head(queue))

-----------------------------------------------------------------------------
(* reset_to.                                                                *)

\* Number of elements of the static array reset_counters.
ResetCounters == 64

\* The callback main() installs throws std::out_of_range from
\* reset_counters.at(i) when it counts.
on_reset_callback_throws(f) == Verbose /\ f >= ResetCounters

\* tinykvm's Machine::reset_to: memory and registers are the master's again
\* and the descriptors of the fork are closed.
machine_reset_to(f) ==
    /\ memory' = [memory EXCEPT ![f] = {}]
    /\ conn' = [c \in Conns |-> IF c \in fds[f] THEN "closed" ELSE conn[c]]
    /\ fds' = [fds EXCEPT ![f] = {}]
    /\ guest' = [guest EXCEPT ![f] = "alive"]

\* A form of ClearFlags that leaves m_blocking_connections set.
ClearFlags_blocking(f) ==
    /\ m_tracked_client_vfd' = [m_tracked_client_vfd EXCEPT ![f] = NoConn]
    /\ UNCHANGED m_blocking_connections

ClearFlags(f) ==
    /\ m_tracked_client_vfd' = [m_tracked_client_vfd EXCEPT ![f] = NoConn]
    /\ m_blocking_connections' = [m_blocking_connections EXCEPT ![f] = FALSE]

reset_to_returns(f) ==
    /\ ~on_reset_callback_throws(f)
    /\ machine_reset_to(f)
    /\ ClearFlags(f)
    /\ UNCHANGED faults

\* A form of reset_to_throws that clears the flags before the machine is reset.
reset_to_throws_cleared(f) ==
    /\ ClearFlags(f)
    /\ \/ on_reset_callback_throws(f) /\ machine_reset_to(f) /\ UNCHANGED faults
       \/ Fault("reset") /\ machine_reset_to(f)
       \/ Fault("reset") /\ UNCHANGED machine

\* An exception leaves reset_to before the flags are cleared: thrown by the
\* reset callback, or by the machine before or after it did its work.
reset_to_throws(f) ==
    /\ UNCHANGED flags
    /\ \/ on_reset_callback_throws(f) /\ machine_reset_to(f) /\ UNCHANGED faults
       \/ Fault("reset") /\ machine_reset_to(f)
       \/ Fault("reset") /\ UNCHANGED machine

-----------------------------------------------------------------------------
(* The host thread of fork f.                                               *)

\* The forking constructor and what follows it; an exception ends the thread.
CreateFork(f) ==
    /\ thread[f] = "create"
    /\ \/ Goto(f, "poll") /\ UNCHANGED faults
       \/ Goto(f, "exited") /\ Fault("create")
    /\ UNCHANGED <<machine, m_poll_method, flags, m_reset_needed, queue>>

\* resume_fork up to and into vmresume().  An ephemeral fork redoes the system
\* call the master is paused in: for a blocking master that is accept4 itself
\* (which waits for a connection unless it answers EAGAIN), for the others it
\* returns to the guest on any event or timeout of its own.
RestartPoll(f) ==
    /\ thread[f] = "poll"
    /\ Goto(f, "guest")
    /\ IF Ephemeral /\ m_poll_method = "Blocking" /\ accept_callback(f)
       THEN accept4(f)
       ELSE UNCHANGED <<machine, flags, queue>>
    /\ UNCHANGED <<m_poll_method, m_reset_needed, faults>>

\* The guest stopped in free_fd_callback: resume_fork resets the fork and
\* starts over; an exception leaves resume_fork with m_reset_needed still set.
ResetInResume(f) ==
    /\ thread[f] = "returned"
    /\ Ephemeral /\ m_reset_needed[f]
    /\ \/ /\ reset_to_returns(f)
          /\ m_reset_needed' = [m_reset_needed EXCEPT ![f] = FALSE]
          /\ Goto(f, "poll")
       \/ /\ reset_to_throws(f)
          /\ Goto(f, "failed")
          /\ UNCHANGED m_reset_needed
    /\ UNCHANGED <<m_poll_method, queue>>

\* A form of MainResets that leaves a fork whose guest just stopped alone.
MainResets_failures_only(f) == thread[f] = "failed"

\* main() resets a fork that failed, and every ephemeral one.
MainResets(f) == Ephemeral \/ thread[f] = "failed"

\* A form of LoopAgain in which an exception out of resume_fork ends the thread.
LoopAgain_exits(f) ==
    /\ \/ thread[f] = "failed"
       \/ thread[f] = "returned" /\ ~(Ephemeral /\ m_reset_needed[f])
    /\ Goto(f, IF thread[f] = "failed" THEN "exited" ELSE "poll")
    /\ IF MainResets(f)
       THEN reset_to_returns(f) \/ reset_to_throws(f)
       ELSE UNCHANGED <<machine, flags, faults>>
    /\ UNCHANGED <<m_poll_method, m_reset_needed, queue>>

\* main(): resume_fork threw or returned.  An exception from reset_to is printed
\* and the loop goes on all the same.
LoopAgain(f) ==
    /\ \/ thread[f] = "failed"
       \/ thread[f] = "returned" /\ ~(Ephemeral /\ m_reset_needed[f])
    /\ Goto(f, "poll")
    /\ IF MainResets(f)
       THEN reset_to_returns(f) \/ reset_to_throws(f)
       ELSE UNCHANGED <<machine, flags, faults>>
    /\ UNCHANGED <<m_poll_method, m_reset_needed, queue>>

-----------------------------------------------------------------------------
(* The guest of fork f, while its thread is inside vmresume().              *)

Running(f) == thread[f] = "guest" /\ guest[f] = "alive"

GuestAccept(f) ==
    /\ Running(f)
    /\ accept4(f)
    /\ UNCHANGED <<thread, m_poll_method, m_reset_needed, faults>>

\* The guest closes a connection, or a file that has been given the number of
\* the tracked connection after a reset that threw had closed that one.
GuestClose(f, c) ==
    /\ Running(f)
    /\ c \in fds[f] \/ Tracks(f, c)
    /\ free_fd_callback(f, c) \/ CloseFd(f, c)
    /\ UNCHANGED <<guest, memory, m_poll_method, flags, queue, faults>>

\* The program exits: vmresume() returns and nothing asked for a reset.
GuestExit(f) ==
    /\ Running(f)
    /\ Fault("exit")
    /\ guest' = [guest EXCEPT ![f] = "exited"]
    /\ Goto(f, "returned")
    /\ UNCHANGED <<memory, fds, conn, m_poll_method, flags, m_reset_needed, queue>>

\* vmresume() throws: a guest exception, a memory error, or any system call
\* handler that threw.
GuestThrows(f) ==
    /\ Running(f)
    /\ Fault("throw")
    /\ Goto(f, "failed")
    /\ UNCHANGED <<machine, m_poll_method, flags, m_reset_needed, queue>>

\* vmresume() of a guest that has exited gives up at once, one way or another.
ResumeExited(f) ==
    /\ thread[f] = "guest" /\ guest[f] = "exited"
    /\ Goto(f, "returned") \/ Goto(f, "failed")
    /\ UNCHANGED <<machine, m_poll_method, flags, m_reset_needed, queue, faults>>

-----------------------------------------------------------------------------

HostStep(f) ==
    \/ CreateFork(f)
    \/ RestartPoll(f)
    \/ ResetInResume(f)
    \/ LoopAgain(f)
    \/ ResumeExited(f)

GuestStep(f) ==
    \/ GuestAccept(f)
    \/ \E c \in Conns : GuestClose(f, c)
    \/ GuestExit(f)
    \/ GuestThrows(f)

Next ==
    \/ \E c \in Conns : Connect(c)
    \/ \E f \in Forks : HostStep(f)
    \/ \E f \in Forks : GuestStep(f)

Spec == Init /\ [][Next]_vars

-----------------------------------------------------------------------------
(* Fairness.  The kernel schedules every host thread; FairSpec also assumes *)
(* of the guest program that it keeps accepting while connections wait and  *)
(* sooner or later closes what it accepted.                                 *)

HostFairness == \A f \in Forks : WF_vars(HostStep(f))

GuestFairness ==
    \A f \in Forks :
        /\ WF_vars(GuestAccept(f))
        /\ \A c \in Conns : WF_vars(c \in fds[f] /\ GuestClose(f, c))

FairSpec == Spec /\ HostFairness /\ GuestFairness

-----------------------------------------------------------------------------
(* Safety.                                                                  *)

\* The memory of an ephemeral fork never holds traces of two connections:
\* reset_to clears m_tracked_client_vfd and m_blocking_connections only after
\* the machine has been reset, whatever threw before.
Isolation ==
    Ephemeral => \A f \in Forks : \A c, d \in memory[f] : c = d

\* A connection the kernel handed out is never dropped by the refusal in
\* accept_socket_callback (accept_callback refuses first), and a connection is
\* open exactly while it is in the descriptor table of one single fork.
NoConnLost ==
    /\ \A c \in Conns :
         /\ conn[c] # "leaked"
         /\ conn[c] = "open" <=> \E f \in Forks : c \in fds[f]
    /\ \A f, g \in Forks : f # g => fds[f] \cap fds[g] = {}

\* Fork f is what the master was when it was forked.
Pristine(f) ==
    /\ m_tracked_client_vfd[f] = NoConn /\ ~m_blocking_connections[f]
    /\ memory[f] = {} /\ fds[f] = {} /\ guest[f] = "alive"

\* No reset of any fork has thrown, and those of f do not.
NoResetThrew(f) ==
    faults["reset"] = MaxFaults["reset"] /\ ~on_reset_callback_throws(f)

\* As long as no reset has thrown, an ephemeral fork that restarts the poll
\* system call is the master again: no connection, no trace of one, and a
\* guest that runs.  The resets of resume_fork and of main() together must
\* cover every way vmresume() can end.
ReadyIsPristine ==
    \A f \in Forks : Ephemeral /\ thread[f] = "poll" /\ NoResetThrew(f) => Pristine(f)

\* As long as no reset has thrown, an ephemeral fork that refuses connections
\* has a guest that runs and can still close the one it has, or its thread is
\* about to reset it: whatever ended vmresume(), no fork is left refusing
\* connections for ever.
BusyForAReason ==
    \A f \in Forks :
        Ephemeral /\ NoResetThrew(f) /\ m_tracked_client_vfd[f] # NoConn =>
            \/ Running(f) /\ fds[f] = {m_tracked_client_vfd[f]}
            \/ thread[f] \in {"returned", "failed"}

\* The inductive invariant behind Isolation and NoConnLost.
FlagsTellTheTruth ==
    Ephemeral => \A f \in Forks :
        /\ m_blocking_connections[f] <=> m_tracked_client_vfd[f] # NoConn
        /\ memory[f] \subseteq {m_tracked_client_vfd[f]}
        /\ fds[f] \subseteq memory[f]

QueueHoldsQueued ==
    /\ \A i \in 1 .. Len(queue) : conn[queue[i]] = "queued"
    /\ \A i, j \in 1 .. Len(queue) : queue[i] = queue[j] => i = j

IInv == TypeOK /\ FlagsTellTheTruth /\ QueueHoldsQueued /\ NoConnLost

\* What makes ReadyIsPristine inductive.
PristineInv ==
    /\ ReadyIsPristine
    /\ faults["reset"] <= MaxFaults["reset"]
    /\ \A f \in Forks : thread[f] = "create" => Pristine(f)

-----------------------------------------------------------------------------
(* An ephemeral pool implements SingleUse.                                  *)

Abstract == INSTANCE SingleUse WITH
    Workers <- Forks,
    slot <- m_tracked_client_vfd,
    taken <- {c \in Conns : conn[c] \in {"open", "closed", "leaked"}}

\* Every fork is a slot that serves one connection, is wiped, and is only then
\* released; no connection is given to two forks.
ImplementsSingleUse == Abstract!Spec

-----------------------------------------------------------------------------
(* Liveness.                                                                *)

\* Every connection the kernel queued is eventually accepted, served and
\* closed, also when forks fail, as long as one fork keeps working.
Served == \A c \in Conns : conn[c] = "queued" ~> conn[c] = "closed"

\* The same for forks that are not ephemeral: main() does not reset such a
\* fork when its program exits, and the connections it held stay open.
ServedOrStranded ==
    \A c \in Conns : conn[c] = "queued" ~>
        \/ conn[c] = "closed"
        \/ \E f \in Forks : guest[f] = "exited" /\ c \in fds[f]

\* A fork that has taken a connection is eventually ready to take another, as
\* long as no reset has thrown.
ReadyAgain ==
    \A f \in Forks : m_tracked_client_vfd[f] # NoConn ~>
        m_tracked_client_vfd[f] = NoConn \/ ~NoResetThrew(f)

\* The same whatever its number: as long as tinykvm resets machines, reset_to
\* runs to its end and clears m_tracked_client_vfd.
ReadyAgainAnyFork ==
    \A f \in Forks : m_tracked_client_vfd[f] # NoConn ~>
        m_tracked_client_vfd[f] = NoConn \/ faults["reset"] # MaxFaults["reset"]

=============================================================================
