--------------------------- MODULE ForkPoolProofs ---------------------------
(***************************************************************************)
(* Proofs about ForkPool, for any number of forks and connections and any  *)
(* number of faults: the inductive invariant IInv, what follows from it,   *)
(* and that an ephemeral pool implements SingleUse.                        *)
(***************************************************************************)
EXTENDS ForkPool, TLAPS

\* The part of the type invariant about what accept4 and reset_to change.
MachineTypes ==
    /\ guest \in [Forks -> {"alive", "exited"}]
    /\ m_tracked_client_vfd \in [Forks -> Conns \cup {NoConn}]
    /\ m_blocking_connections \in [Forks -> BOOLEAN]
    /\ memory \in [Forks -> SUBSET Conns]
    /\ fds \in [Forks -> SUBSET Conns]
    /\ queue \in Seq(Conns)
    /\ conn \in [Conns -> ConnStates]

Safe == FlagsTellTheTruth /\ QueueHoldsQueued /\ NoConnLost

\* A fault leaves natural numbers of faults.
LEMMA FaultType ==
    ASSUME faults \in [FaultKinds -> Nat], NEW kind \in FaultKinds, Fault(kind)
    PROVE  faults' \in [FaultKinds -> Nat]
BY DEF Fault

\* What accept4 takes off the accept queue.
LEMMA HeadOfQueue ==
    ASSUME queue \in Seq(Conns), queue # <<>>
    PROVE  /\ Head(queue) \in Conns
           /\ Head(queue) = queue[1]
           /\ Tail(queue) \in Seq(Conns)
           /\ Len(queue) \in Nat /\ Len(queue) >= 1
           /\ Len(Tail(queue)) = Len(queue) - 1
           /\ \A i \in 1 .. Len(Tail(queue)) : Tail(queue)[i] = queue[i + 1]
OBVIOUS

\* Handing the first queued connection to a fork that accepts keeps the
\* invariant: accept_callback is what makes the refusal unreachable.
LEMMA AcceptKeeps ==
    ASSUME IInv, NEW f \in Forks, accept4(f)
    PROVE  MachineTypes' /\ Safe'
<1> DEFINE c == Head(queue)
<1>1. /\ c \in Conns /\ conn[c] = "queued"
      /\ \A i \in 1 .. Len(Tail(queue)) : Tail(queue)[i] # c
      /\ queue' = Tail(queue)
  BY HeadOfQueue DEF IInv, TypeOK, QueueHoldsQueued, accept4
<1>2. ~(Ephemeral /\ m_tracked_client_vfd[f] # NoConn)
  BY DEF IInv, FlagsTellTheTruth, accept4, accept_callback
<1>3. /\ conn' = [conn EXCEPT ![c] = "open"]
      /\ fds' = [fds EXCEPT ![f] = @ \cup {c}]
      /\ memory' = [memory EXCEPT ![f] = @ \cup {c}]
      /\ guest' = guest
  BY <1>2 DEF accept4, accept_socket_callback
<1>4. /\ FlagsTellTheTruth'
      /\ m_tracked_client_vfd' \in [Forks -> Conns \cup {NoConn}]
      /\ m_blocking_connections' \in [Forks -> BOOLEAN]
  <2>1. CASE Ephemeral
    <3>1. /\ m_tracked_client_vfd' = [m_tracked_client_vfd EXCEPT ![f] = c]
          /\ m_blocking_connections' = [m_blocking_connections EXCEPT ![f] = TRUE]
      BY <1>2, <2>1 DEF accept4, accept_socket_callback
    <3>2. m_tracked_client_vfd[f] = NoConn /\ memory[f] = {}
      BY <1>2, <2>1, NoConnAssumption DEF IInv, TypeOK, FlagsTellTheTruth
    <3> QED
      BY <1>1, <1>3, <3>1, <3>2, NoConnAssumption DEF IInv, TypeOK, FlagsTellTheTruth
  <2>2. CASE ~Ephemeral
    BY <1>2, <2>2 DEF IInv, TypeOK, FlagsTellTheTruth, accept4, accept_socket_callback
  <2> QED BY <2>1, <2>2
<1>5. QueueHoldsQueued'
  BY <1>1, <1>3, HeadOfQueue DEF IInv, TypeOK, QueueHoldsQueued, accept4
<1>6. NoConnLost'
  BY <1>1, <1>3 DEF IInv, TypeOK, NoConnLost
<1>7. MachineTypes'
  BY <1>1, <1>3, <1>4, HeadOfQueue DEF IInv, TypeOK, MachineTypes, ConnStates, accept4
<1> QED BY <1>4, <1>5, <1>6, <1>7 DEF Safe

\* Whether or not the flags are cleared afterwards, tinykvm's reset keeps the
\* invariant, since it empties the memory and the descriptor table together.
LEMMA MachineResetKeeps ==
    ASSUME IInv, NEW f \in Forks, machine_reset_to(f), queue' = queue,
           UNCHANGED flags \/ ClearFlags(f)
    PROVE  MachineTypes' /\ Safe'
<1>1. /\ memory' = [memory EXCEPT ![f] = {}]
      /\ fds' = [fds EXCEPT ![f] = {}]
      /\ conn' = [c \in Conns |-> IF c \in fds[f] THEN "closed" ELSE conn[c]]
  BY DEF machine_reset_to
<1>2. /\ FlagsTellTheTruth'
      /\ m_tracked_client_vfd' \in [Forks -> Conns \cup {NoConn}]
      /\ m_blocking_connections' \in [Forks -> BOOLEAN]
  <2>1. CASE UNCHANGED flags
    BY <1>1, <2>1 DEF IInv, TypeOK, FlagsTellTheTruth, flags
  <2>2. CASE ClearFlags(f)
    BY <1>1, <2>2 DEF IInv, TypeOK, FlagsTellTheTruth, ClearFlags
  <2> QED BY <2>1, <2>2
<1>3. \A c \in Conns : conn[c] = "queued" => c \notin fds[f]
  BY DEF IInv, NoConnLost
<1>4. QueueHoldsQueued'
  BY <1>1, <1>3 DEF IInv, TypeOK, QueueHoldsQueued
<1>5. NoConnLost'
  BY <1>1 DEF IInv, TypeOK, NoConnLost
<1>6. MachineTypes'
  BY <1>1, <1>2 DEF IInv, TypeOK, MachineTypes, ConnStates, machine_reset_to
<1> QED BY <1>2, <1>4, <1>5, <1>6 DEF Safe

\* Both outcomes of reset_to keep the invariant.
LEMMA ResetKeeps ==
    ASSUME IInv, NEW f \in Forks, queue' = queue,
           reset_to_returns(f) \/ reset_to_throws(f)
    PROVE  MachineTypes' /\ Safe' /\ faults' \in [FaultKinds -> Nat]
<1>1. faults' \in [FaultKinds -> Nat]
  BY FaultType DEF IInv, TypeOK, FaultKinds, reset_to_returns, reset_to_throws
<1>2. CASE machine_reset_to(f)
  BY <1>1, <1>2, MachineResetKeeps DEF reset_to_returns, reset_to_throws
<1>3. CASE UNCHANGED machine /\ UNCHANGED flags
  BY <1>1, <1>3 DEF IInv, TypeOK, MachineTypes, Safe, FlagsTellTheTruth,
     QueueHoldsQueued, NoConnLost, machine, flags
<1> QED BY <1>2, <1>3 DEF reset_to_returns, reset_to_throws

\* IInv is inductive, one step per action of Next.
LEMMA Inductive == IInv /\ [Next]_vars => IInv'
<1> SUFFICES ASSUME IInv, [Next]_vars PROVE IInv'
  OBVIOUS
<1> USE DEF IInv
<1>1. ASSUME NEW c \in Conns, Connect(c) PROVE IInv'
  <2>1. TypeOK'
    BY <1>1 DEF TypeOK, Connect, ConnStates, flags
  <2>2. QueueHoldsQueued'
    <3>1. /\ queue' = Append(queue, c) /\ conn' = [conn EXCEPT ![c] = "queued"]
          /\ conn[c] = "idle" /\ queue \in Seq(Conns) /\ conn \in [Conns -> ConnStates]
      BY <1>1 DEF Connect, TypeOK
    <3>2. /\ Len(queue) \in Nat
          /\ Len(queue') = Len(queue) + 1
          /\ queue'[Len(queue) + 1] = c
          /\ \A i \in 1 .. Len(queue) : queue'[i] = queue[i] /\ queue[i] \in Conns
      BY <3>1
    <3>3. \A i \in 1 .. Len(queue) : queue[i] # c
      BY <3>1 DEF QueueHoldsQueued
    <3>4. \A i \in 1 .. Len(queue') : i \in 1 .. Len(queue) \/ i = Len(queue) + 1
      BY <3>2
    <3> QED BY <3>1, <3>2, <3>3, <3>4 DEF QueueHoldsQueued
  <2>3. NoConnLost'
    BY <1>1 DEF TypeOK, NoConnLost, Connect
  <2> QED BY <1>1, <2>1, <2>2, <2>3 DEF FlagsTellTheTruth, Connect, flags
<1>2. ASSUME NEW f \in Forks, CreateFork(f) PROVE IInv'
  <2>1. TypeOK'
    BY <1>2, FaultType DEF TypeOK, CreateFork, Goto, ThreadStates, FaultKinds, machine, flags
  <2> QED BY <1>2, <2>1 DEF CreateFork, FlagsTellTheTruth, QueueHoldsQueued,
             NoConnLost, machine, flags
<1>3. ASSUME NEW f \in Forks, RestartPoll(f) PROVE IInv'
  <2>1. thread' \in [Forks -> ThreadStates]
    BY <1>3 DEF TypeOK, RestartPoll, Goto, ThreadStates
  <2>2. CASE accept4(f)
    BY <1>3, <2>1, <2>2, AcceptKeeps DEF RestartPoll, TypeOK, MachineTypes, Safe
  <2>3. CASE UNCHANGED <<machine, flags, queue>>
    BY <1>3, <2>1, <2>3 DEF RestartPoll, TypeOK, FlagsTellTheTruth, QueueHoldsQueued,
       NoConnLost, machine, flags
  <2> QED BY <1>3, <2>2, <2>3 DEF RestartPoll
<1>4. ASSUME NEW f \in Forks, ResetInResume(f) PROVE IInv'
  <2>1. /\ thread' \in [Forks -> ThreadStates]
        /\ m_reset_needed' \in [Forks -> BOOLEAN]
    BY <1>4 DEF TypeOK, ResetInResume, Goto, ThreadStates
  <2> QED BY <1>4, <2>1, ResetKeeps DEF ResetInResume, TypeOK, MachineTypes, Safe
<1>5. ASSUME NEW f \in Forks, LoopAgain(f), MainResets(f) PROVE IInv'
  <2>1. thread' \in [Forks -> ThreadStates]
    BY <1>5 DEF TypeOK, LoopAgain, Goto, ThreadStates
  <2> QED BY <1>5, <2>1, ResetKeeps DEF LoopAgain, TypeOK, MachineTypes, Safe
<1>6. ASSUME NEW f \in Forks, (LoopAgain(f) /\ ~MainResets(f)) \/ ResumeExited(f) PROVE IInv'
  <2>1. thread' \in [Forks -> ThreadStates]
    BY <1>6 DEF LoopAgain, MainResets, ResumeExited, Goto, ThreadStates, TypeOK
  <2>2. UNCHANGED <<machine, m_poll_method, flags, m_reset_needed, queue, faults>>
    BY <1>6 DEF LoopAgain, MainResets, ResumeExited
  <2> QED BY <2>1, <2>2 DEF TypeOK, FlagsTellTheTruth, QueueHoldsQueued, NoConnLost,
             machine, flags
<1>7. ASSUME NEW f \in Forks, GuestAccept(f) PROVE IInv'
  BY <1>7, AcceptKeeps DEF GuestAccept, TypeOK, MachineTypes, Safe
<1>8. ASSUME NEW f \in Forks, NEW c \in Conns, GuestClose(f, c) PROVE IInv'
  <2>1. CASE Tracks(f, c)
    <3>1. /\ thread' \in [Forks -> ThreadStates]
          /\ m_reset_needed' \in [Forks -> BOOLEAN]
      BY <1>8, <2>1 DEF GuestClose, free_fd_callback, CloseFd, Goto, ThreadStates, TypeOK
    <3>2. UNCHANGED <<machine, m_poll_method, flags, queue, faults>>
      BY <1>8, <2>1 DEF GuestClose, free_fd_callback, CloseFd, machine
    <3> QED BY <3>1, <3>2 DEF TypeOK, FlagsTellTheTruth, QueueHoldsQueued, NoConnLost,
               machine, flags
  <2>2. CASE ~Tracks(f, c)
    <3>1. /\ c \in fds[f]
          /\ fds' = [fds EXCEPT ![f] = @ \ {c}]
          /\ conn' = [conn EXCEPT ![c] = "closed"]
          /\ UNCHANGED <<thread, guest, m_poll_method, m_tracked_client_vfd, faults,
                         m_blocking_connections, m_reset_needed, memory, queue>>
      BY <1>8, <2>2 DEF GuestClose, free_fd_callback, CloseFd, flags
    <3>2. TypeOK' /\ FlagsTellTheTruth' /\ NoConnLost'
      BY <3>1 DEF TypeOK, ConnStates, FlagsTellTheTruth, NoConnLost
    <3>3. conn[c] # "queued"
      BY <3>1 DEF NoConnLost
    <3>4. QueueHoldsQueued'
      BY <3>1, <3>3 DEF TypeOK, QueueHoldsQueued
    <3> QED BY <3>2, <3>4
  <2> QED BY <2>1, <2>2
<1>9. ASSUME NEW f \in Forks, GuestExit(f) \/ GuestThrows(f) PROVE IInv'
  <2>1. faults' \in [FaultKinds -> Nat]
    BY <1>9, FaultType DEF GuestExit, GuestThrows, TypeOK, FaultKinds
  <2>2. /\ thread' \in [Forks -> ThreadStates]
        /\ guest' \in [Forks -> {"alive", "exited"}]
    BY <1>9 DEF GuestExit, GuestThrows, Goto, ThreadStates, TypeOK, machine
  <2>3. UNCHANGED <<memory, fds, conn, m_poll_method, flags, m_reset_needed, queue>>
    BY <1>9 DEF GuestExit, GuestThrows, machine
  <2> QED BY <2>1, <2>2, <2>3 DEF TypeOK, FlagsTellTheTruth, QueueHoldsQueued,
             NoConnLost, flags
<1>10. CASE UNCHANGED vars
  BY <1>10 DEF vars, machine, flags, TypeOK, FlagsTellTheTruth, QueueHoldsQueued, NoConnLost
<1> QED
  BY <1>1, <1>2, <1>3, <1>4, <1>5, <1>6, <1>7, <1>8, <1>9, <1>10
     DEF Next, HostStep, GuestStep

\* A pool of forks that are about to be created.
LEMMA Initially == Init => IInv
BY FaultsAssumption DEF Init, IInv, TypeOK, FlagsTellTheTruth, QueueHoldsQueued,
   NoConnLost, ThreadStates, ConnStates

\* IInv holds in every reachable state of the pool.
THEOREM PoolInvariant == Spec => []IInv
BY Initially, Inductive, PTL DEF Spec

\* Every variable of the pool keeps its type.
THEOREM PoolTypes == Spec => []TypeOK
<1>1. IInv => TypeOK
  BY DEF IInv
<1> QED BY <1>1, PoolInvariant, PTL

\* The memory of an ephemeral fork never holds traces of two connections,
\* however vmresume() and reset_to end.
THEOREM PoolIsolation == Spec => []Isolation
<1>1. IInv => Isolation
  BY DEF IInv, FlagsTellTheTruth, Isolation
<1> QED BY <1>1, PoolInvariant, PTL

\* No fork refuses a connection the kernel has already handed to it, and an
\* open connection belongs to one fork.
THEOREM PoolLosesNoConn == Spec => []NoConnLost
<1>1. IInv => NoConnLost
  BY DEF IInv
<1> QED BY <1>1, PoolInvariant, PTL

-----------------------------------------------------------------------------
(* Readiness: both resets together cover every end of vmresume().           *)

\* A reset that throws uses up a fault, or the fork's callback always throws.
LEMMA ResetIsClean ==
    ASSUME IInv, PristineInv, NEW f \in Forks,
           reset_to_returns(f) \/ reset_to_throws(f)
    PROVE  /\ faults'["reset"] <= MaxFaults["reset"]
           /\ NoResetThrew(f)' => NoResetThrew(f) /\ Pristine(f)'
           /\ \A g \in Forks \ {f} : Pristine(g) => Pristine(g)'
           /\ \A g \in Forks : NoResetThrew(g)' => NoResetThrew(g)
<1>1. /\ faults["reset"] \in Nat /\ MaxFaults["reset"] \in Nat
      /\ faults["reset"] <= MaxFaults["reset"]
  BY FaultsAssumption DEF IInv, TypeOK, FaultKinds, PristineInv
<1>2. \/ faults' = faults
      \/ faults'["reset"] = faults["reset"] - 1
  BY DEF IInv, TypeOK, FaultKinds, Fault, reset_to_returns, reset_to_throws
<1>3. \A g \in Forks : NoResetThrew(g)' => NoResetThrew(g)
  BY <1>1, <1>2 DEF NoResetThrew, on_reset_callback_throws
<1>4. CASE reset_to_returns(f)
  <2>1. Pristine(f)'
    BY <1>4 DEF IInv, TypeOK, Pristine, reset_to_returns, machine_reset_to, ClearFlags
  <2>2. \A g \in Forks \ {f} : Pristine(g) => Pristine(g)'
    BY <1>4 DEF IInv, TypeOK, Pristine, reset_to_returns, machine_reset_to, ClearFlags
  <2> QED BY <1>1, <1>2, <1>3, <2>1, <2>2
<1>5. CASE reset_to_throws(f)
  <2>1. ~NoResetThrew(f)'
    BY <1>1, <1>5 DEF IInv, TypeOK, FaultKinds, NoResetThrew, on_reset_callback_throws,
       reset_to_throws, Fault
  <2>2. \A g \in Forks \ {f} : Pristine(g) => Pristine(g)'
    BY <1>5 DEF IInv, TypeOK, Pristine, reset_to_throws, machine_reset_to, machine, flags
  <2> QED BY <1>1, <1>2, <1>3, <2>1, <2>2
<1> QED BY <1>4, <1>5

\* accept4 in one fork leaves the others as they are.
LEMMA AcceptIsLocal ==
    ASSUME IInv, NEW f \in Forks, accept4(f)
    PROVE  \A g \in Forks \ {f} : Pristine(g) => Pristine(g)'
BY DEF IInv, TypeOK, Pristine, accept4, accept_socket_callback

\* PristineInv is inductive relative to IInv, one step per action.
LEMMA ReadyInductive == IInv /\ PristineInv /\ [Next]_vars => PristineInv'
<1> SUFFICES ASSUME IInv, PristineInv, [Next]_vars PROVE PristineInv'
  OBVIOUS
<1> DEFINE Others(f) == \A g \in Forks \ {f} :
                            /\ thread'[g] = thread[g]
                            /\ Pristine(g) => Pristine(g)'
<1>0. ASSUME NEW f \in Forks, Others(f),
             faults'["reset"] <= MaxFaults["reset"],
             \A g \in Forks : NoResetThrew(g)' => NoResetThrew(g),
             thread'[f] # "create",
             Ephemeral /\ thread'[f] = "poll" /\ NoResetThrew(f)' => Pristine(f)'
      PROVE  PristineInv'
  BY <1>0 DEF PristineInv, ReadyIsPristine
<1>1. ASSUME faults'["reset"] = faults["reset"]
      PROVE  /\ faults'["reset"] <= MaxFaults["reset"]
             /\ \A g \in Forks : NoResetThrew(g)' => NoResetThrew(g)
  BY <1>1 DEF PristineInv, NoResetThrew, on_reset_callback_throws
<1>2. ASSUME NEW c \in Conns, Connect(c) PROVE PristineInv'
  BY <1>2 DEF Connect, PristineInv, ReadyIsPristine, NoResetThrew,
     on_reset_callback_throws, Pristine, flags
<1>3. ASSUME NEW f \in Forks, CreateFork(f) PROVE PristineInv'
  <2>1. Others(f) /\ (thread'[f] # "create") /\ Pristine(f)'
    BY <1>3 DEF IInv, TypeOK, CreateFork, Goto, PristineInv, Pristine, machine, flags
  <2>2. faults'["reset"] = faults["reset"]
    BY <1>3 DEF IInv, TypeOK, FaultKinds, CreateFork, Fault
  <2> QED BY <1>0, <1>1, <2>1, <2>2
<1>4. ASSUME NEW f \in Forks, RestartPoll(f) PROVE PristineInv'
  <2>1. (thread'[f] = "guest") /\ \A g \in Forks \ {f} : thread'[g] = thread[g]
    BY <1>4 DEF IInv, TypeOK, RestartPoll, Goto
  <2>2. \A g \in Forks \ {f} : Pristine(g) => Pristine(g)'
    BY <1>4, AcceptIsLocal DEF RestartPoll, Pristine, machine, flags
  <2>3. faults'["reset"] = faults["reset"]
    BY <1>4 DEF RestartPoll
  <2> QED BY <1>0, <1>1, <2>1, <2>2, <2>3
<1>5. ASSUME NEW f \in Forks, ResetInResume(f) \/ (LoopAgain(f) /\ MainResets(f)) PROVE PristineInv'
  <2>1. (thread'[f] # "create") /\ \A g \in Forks \ {f} : thread'[g] = thread[g]
    BY <1>5 DEF IInv, TypeOK, ResetInResume, LoopAgain, Goto
  <2>2. reset_to_returns(f) \/ reset_to_throws(f)
    BY <1>5 DEF ResetInResume, LoopAgain
  <2> QED BY <1>0, <2>1, <2>2, ResetIsClean
<1>6. ASSUME NEW f \in Forks, (LoopAgain(f) /\ ~MainResets(f)) \/ ResumeExited(f) PROVE PristineInv'
  <2>1. Others(f) /\ (thread'[f] # "create") /\ (Ephemeral => thread'[f] # "poll")
    BY <1>6 DEF IInv, TypeOK, LoopAgain, MainResets, ResumeExited, Goto, Pristine, machine, flags
  <2>2. faults'["reset"] = faults["reset"]
    BY <1>6 DEF LoopAgain, MainResets, ResumeExited
  <2> QED BY <1>0, <1>1, <2>1, <2>2
<1>7. ASSUME NEW f \in Forks, GuestAccept(f) PROVE PristineInv'
  <2>1. (thread' = thread) /\ (thread[f] = "guest") /\ (faults' = faults)
    BY <1>7 DEF GuestAccept, Running
  <2>2. Others(f)
    BY <1>7, <2>1, AcceptIsLocal DEF GuestAccept
  <2> QED BY <1>0, <1>1, <2>1, <2>2
<1>8. ASSUME NEW f \in Forks, NEW c \in Conns, GuestClose(f, c) PROVE PristineInv'
  <2>1. Others(f) /\ (thread'[f] \in {"guest", "returned"}) /\ (faults' = faults)
    BY <1>8 DEF IInv, TypeOK, GuestClose, Running, free_fd_callback, CloseFd, Goto, Pristine, flags
  <2> QED BY <1>0, <1>1, <2>1
<1>9. ASSUME NEW f \in Forks, GuestExit(f) \/ GuestThrows(f) PROVE PristineInv'
  <2>1. Others(f) /\ (thread'[f] \in {"returned", "failed"})
    BY <1>9 DEF IInv, TypeOK, GuestExit, GuestThrows, Goto, Pristine, machine, flags
  <2>2. faults'["reset"] = faults["reset"]
    BY <1>9 DEF IInv, TypeOK, FaultKinds, GuestExit, GuestThrows, Fault
  <2> QED BY <1>0, <1>1, <2>1, <2>2
<1>10. CASE UNCHANGED vars
  BY <1>10 DEF vars, machine, flags, PristineInv, ReadyIsPristine, NoResetThrew,
     on_reset_callback_throws, Pristine
<1> QED
  BY <1>2, <1>3, <1>4, <1>5, <1>6, <1>7, <1>8, <1>9, <1>10 DEF Next, HostStep, GuestStep

\* Forks start as copies of the master.
LEMMA PristineInitially == Init => PristineInv
BY FaultsAssumption DEF Init, PristineInv, ReadyIsPristine, Pristine, FaultKinds

\* As long as no reset has thrown, an ephemeral fork is the master again whenever
\* it restarts the poll system call.
THEOREM PoolReadyIsPristine == Spec => []ReadyIsPristine
<1>1. PristineInv => ReadyIsPristine
  BY DEF PristineInv
<1> QED BY <1>1, PristineInitially, PoolInvariant, ReadyInductive, PTL DEF Spec

-----------------------------------------------------------------------------
(* BusyForAReason: a fork comes to refuse connections by accepting one, and *)
(* stops running only in states in which its thread resets it.              *)

Reason(f) == m_tracked_client_vfd[f] # NoConn =>
                \/ Running(f) /\ fds[f] = {m_tracked_client_vfd[f]}
                \/ thread[f] \in {"returned", "failed"}

\* The connection a free fork accepts is the only one it has open.
LEMMA AcceptTracks ==
    ASSUME Ephemeral, IInv, NEW f \in Forks, accept4(f)
    PROVE  /\ fds'[f] = {m_tracked_client_vfd'[f]} /\ guest' = guest
           /\ \A g \in Forks \ {f} : /\ fds'[g] = fds[g]
                                     /\ m_tracked_client_vfd'[g] = m_tracked_client_vfd[g]
<1>1. m_tracked_client_vfd[f] = NoConn /\ fds[f] = {}
  BY NoConnAssumption DEF IInv, TypeOK, FlagsTellTheTruth, accept4, accept_callback
<1> QED BY <1>1 DEF IInv, TypeOK, accept4, accept_socket_callback

\* No step repairs a reset that threw.
LEMMA ThrewForGood ==
    ASSUME IInv, PristineInv, [Next]_vars
    PROVE  \A g \in Forks : NoResetThrew(g)' => NoResetThrew(g)
<1>1. faults'["reset"] <= faults["reset"]
  <2>1. ASSUME NEW kind \in FaultKinds, Fault(kind) PROVE faults'["reset"] <= faults["reset"]
    BY <2>1 DEF IInv, TypeOK, FaultKinds, Fault
  <2>2. faults["reset"] \in Nat
    BY DEF IInv, TypeOK, FaultKinds
  <2>3. faults' = faults \/ \E kind \in FaultKinds : Fault(kind)
    BY DEF Next, vars, HostStep, GuestStep, Connect, CreateFork, RestartPoll, ResetInResume,
       LoopAgain, ResumeExited, GuestAccept, GuestClose, GuestExit, GuestThrows,
       reset_to_returns, reset_to_throws, FaultKinds
  <2> QED BY <2>1, <2>2, <2>3
<1>2. faults["reset"] \in Nat /\ faults'["reset"] \in Nat /\ MaxFaults["reset"] \in Nat
  BY Inductive, FaultsAssumption DEF IInv, TypeOK, FaultKinds
<1> QED BY <1>1, <1>2 DEF PristineInv, NoResetThrew, on_reset_callback_throws

\* Every step keeps BusyForAReason.
LEMMA BusyInductive ==
    IInv /\ PristineInv /\ BusyForAReason /\ [Next]_vars => BusyForAReason'
<1> SUFFICES ASSUME IInv, PristineInv, BusyForAReason, [Next]_vars, Ephemeral
             PROVE  BusyForAReason'
  BY DEF BusyForAReason
<1> DEFINE Others(f) == \A g \in Forks \ {f} :
                            /\ thread'[g] = thread[g] /\ guest'[g] = guest[g]
                            /\ fds'[g] = fds[g]
                            /\ m_tracked_client_vfd'[g] = m_tracked_client_vfd[g]
<1>0. ASSUME NEW f \in Forks, Others(f),
             NoResetThrew(f)' /\ NoResetThrew(f) /\ Reason(f) => Reason(f)'
      PROVE  BusyForAReason'
  BY <1>0, ThrewForGood DEF BusyForAReason, Reason, Running
<1>1. PristineInv'
  BY ReadyInductive
<1>2. ASSUME NEW c \in Conns, Connect(c) PROVE BusyForAReason'
  BY <1>2 DEF Connect, BusyForAReason, NoResetThrew, on_reset_callback_throws, Running, flags
<1>3. ASSUME NEW f \in Forks, CreateFork(f) PROVE BusyForAReason'
  <2>1. Others(f) /\ m_tracked_client_vfd'[f] = NoConn
    BY <1>3 DEF IInv, TypeOK, CreateFork, Goto, PristineInv, Pristine, machine, flags
  <2> QED BY <1>0, <2>1 DEF Reason
<1>4. ASSUME NEW f \in Forks, RestartPoll(f) PROVE BusyForAReason'
  <2>1. (thread'[f] = "guest") /\ \A g \in Forks \ {f} : thread'[g] = thread[g]
    BY <1>4 DEF IInv, TypeOK, RestartPoll, Goto
  <2>2. NoResetThrew(f) => guest[f] = "alive" /\ m_tracked_client_vfd[f] = NoConn
    BY <1>4 DEF PristineInv, ReadyIsPristine, Pristine, RestartPoll
  <2>3. CASE accept4(f)
    <3>1. Others(f)
      BY <2>1, <2>3, AcceptTracks
    <3>2. NoResetThrew(f) => Reason(f)'
      BY <2>1, <2>2, <2>3, AcceptTracks DEF Reason, Running
    <3> QED BY <1>0, <3>1, <3>2
  <2>4. CASE UNCHANGED <<machine, flags>>
    BY <1>0, <2>1, <2>2, <2>4 DEF Reason, machine, flags
  <2> QED BY <1>4, <2>3, <2>4 DEF RestartPoll
<1>5. ASSUME NEW f \in Forks, ResetInResume(f) \/ LoopAgain(f) PROVE BusyForAReason'
  <2>1. reset_to_returns(f) \/ reset_to_throws(f)
    BY <1>5 DEF ResetInResume, LoopAgain, MainResets
  <2>2. Others(f)
    BY <1>5, <2>1 DEF IInv, TypeOK, ResetInResume, LoopAgain, Goto, reset_to_returns,
       reset_to_throws, machine_reset_to, ClearFlags, machine, flags
  <2>3. thread'[f] \in {"poll", "failed"}
    BY <1>5 DEF IInv, TypeOK, ResetInResume, LoopAgain, Goto
  <2>4. (thread'[f] = "poll") /\ NoResetThrew(f)' => m_tracked_client_vfd'[f] = NoConn
    BY <1>1 DEF PristineInv, ReadyIsPristine, Pristine
  <2> QED BY <1>0, <2>2, <2>3, <2>4 DEF Reason
<1>6. ASSUME NEW f \in Forks, ResumeExited(f) \/ GuestExit(f) \/ GuestThrows(f)
      PROVE  BusyForAReason'
  <2>1. Others(f) /\ thread'[f] \in {"returned", "failed"}
    BY <1>6 DEF IInv, TypeOK, ResumeExited, GuestExit, GuestThrows, Goto, machine, flags
  <2> QED BY <1>0, <2>1 DEF Reason
<1>7. ASSUME NEW f \in Forks, GuestAccept(f) PROVE BusyForAReason'
  <2>1. Running(f) /\ accept4(f) /\ thread' = thread
    BY <1>7 DEF GuestAccept
  <2>2. Others(f) /\ Running(f)' /\ fds'[f] = {m_tracked_client_vfd'[f]}
    BY <2>1, AcceptTracks DEF Running
  <2> QED BY <1>0, <2>2 DEF Reason
<1>8. ASSUME NEW f \in Forks, NEW c \in Conns, GuestClose(f, c) PROVE BusyForAReason'
  <2>1. c = m_tracked_client_vfd[f]
    BY <1>8 DEF IInv, TypeOK, FlagsTellTheTruth, GuestClose, Tracks
  <2>2. Others(f) /\ thread'[f] = "returned"
    BY <1>8, <2>1 DEF IInv, TypeOK, GuestClose, free_fd_callback, CloseFd, Tracks, Goto, flags
  <2> QED BY <1>0, <2>2 DEF Reason
<1>9. CASE UNCHANGED vars
  BY <1>9 DEF vars, machine, flags, BusyForAReason, NoResetThrew, on_reset_callback_throws, Running
<1> QED
  BY <1>2, <1>3, <1>4, <1>5, <1>6, <1>7, <1>8, <1>9 DEF Next, HostStep, GuestStep

\* As long as no reset has thrown, an ephemeral fork refuses connections only
\* while its guest can close the one it has, or its thread is about to reset it.
THEOREM PoolBusyForAReason == Spec => []BusyForAReason
<1>1. Init => BusyForAReason
  BY DEF Init, BusyForAReason
<1> QED BY <1>1, PristineInitially, PoolInvariant, ReadyInductive, BusyInductive, PTL DEF Spec

-----------------------------------------------------------------------------
(* Refinement: every step of an ephemeral pool is a step of SingleUse.      *)

Taken == {c \in Conns : conn[c] \in {"open", "closed", "leaked"}}

\* accept4 in an ephemeral fork takes a connection into a free slot.
LEMMA AcceptTakes ==
    ASSUME Ephemeral, IInv, NEW f \in Forks, accept4(f)
    PROVE  Abstract!Next
<1> DEFINE c == Head(queue)
<1>1. c \in Conns /\ conn[c] = "queued"
  BY HeadOfQueue DEF IInv, TypeOK, QueueHoldsQueued, accept4
<1>2. m_tracked_client_vfd[f] = NoConn /\ memory[f] = {}
  BY NoConnAssumption DEF IInv, TypeOK, FlagsTellTheTruth, accept4, accept_callback
<1>3. /\ m_tracked_client_vfd' = [m_tracked_client_vfd EXCEPT ![f] = c]
      /\ memory' = [memory EXCEPT ![f] = {c}]
      /\ conn' = [conn EXCEPT ![c] = "open"]
  BY <1>2 DEF accept4, accept_socket_callback
<1>4. c \notin Taken /\ Taken' = Taken \cup {c}
  BY <1>1, <1>3 DEF IInv, TypeOK, Taken
<1> QED BY <1>1, <1>2, <1>3, <1>4 DEF Abstract!Next, Abstract!Take, Taken

\* reset_to wipes a slot, releases it, or leaves it as it is.
LEMMA ResetReleases ==
    ASSUME Ephemeral, IInv, NEW f \in Forks, reset_to_returns(f) \/ reset_to_throws(f)
    PROVE  Abstract!Next \/ UNCHANGED Abstract!vars
<1>1. CASE machine_reset_to(f)
  <2>1. Taken' = Taken
    BY <1>1 DEF IInv, TypeOK, NoConnLost, Taken, machine_reset_to
  <2>2. memory' = [memory EXCEPT ![f] = {}]
    BY <1>1 DEF machine_reset_to
  <2>3. CASE m_tracked_client_vfd[f] # NoConn
    <3>1. CASE UNCHANGED flags
      BY <2>1, <2>2, <2>3, <3>1 DEF Abstract!Next, Abstract!Wipe, Taken, flags
    <3>2. CASE ClearFlags(f)
      BY <2>1, <2>2, <2>3, <3>2 DEF Abstract!Next, Abstract!Release, Taken, ClearFlags
    <3> QED BY <3>1, <3>2 DEF reset_to_returns, reset_to_throws
  <2>4. CASE m_tracked_client_vfd[f] = NoConn
    <3>1. memory[f] = {}
      BY <2>4, NoConnAssumption DEF IInv, TypeOK, FlagsTellTheTruth
    <3>2. memory' = memory /\ m_tracked_client_vfd' = m_tracked_client_vfd
      BY <2>2, <2>4, <3>1 DEF IInv, TypeOK, reset_to_returns, reset_to_throws,
         ClearFlags, flags
    <3> QED BY <2>1, <3>2 DEF Abstract!vars, Taken
  <2> QED BY <2>3, <2>4
<1>2. CASE UNCHANGED machine /\ UNCHANGED flags
  BY <1>2 DEF Abstract!vars, machine, flags
<1> QED BY <1>1, <1>2 DEF reset_to_returns, reset_to_throws

\* Steps that touch neither the slot nor the memory of a fork, nor hand out a
\* connection.
LEMMA OthersStutter ==
    ASSUME UNCHANGED <<memory, m_tracked_client_vfd>>, Taken' = Taken
    PROVE  UNCHANGED Abstract!vars
BY DEF Abstract!vars, Taken

\* Every step of an ephemeral pool is a step of SingleUse or none.
LEMMA StepRefines ==
    ASSUME Ephemeral, IInv, [Next]_vars
    PROVE  [Abstract!Next]_(Abstract!vars)
<1>1. ASSUME NEW c \in Conns, Connect(c) PROVE UNCHANGED Abstract!vars
  <2>1. Taken' = Taken
    BY <1>1 DEF IInv, TypeOK, Taken, Connect
  <2> QED BY <1>1, <2>1, OthersStutter DEF Connect, flags
<1>2. ASSUME NEW f \in Forks, RestartPoll(f) PROVE Abstract!Next \/ UNCHANGED Abstract!vars
  BY <1>2, AcceptTakes, OthersStutter DEF RestartPoll, machine, flags, Taken
<1>3. ASSUME NEW f \in Forks, ResetInResume(f) \/ (LoopAgain(f) /\ MainResets(f))
      PROVE  Abstract!Next \/ UNCHANGED Abstract!vars
  BY <1>3, ResetReleases DEF ResetInResume, LoopAgain
<1>4. ASSUME NEW f \in Forks, GuestAccept(f) PROVE Abstract!Next
  BY <1>4, AcceptTakes DEF GuestAccept
<1>5. ASSUME NEW f \in Forks, NEW c \in Conns, GuestClose(f, c)
      PROVE  UNCHANGED Abstract!vars
  <2>1. c = m_tracked_client_vfd[f]
    BY <1>5 DEF IInv, TypeOK, FlagsTellTheTruth, GuestClose, Tracks
  <2> QED BY <1>5, <2>1, OthersStutter DEF GuestClose, free_fd_callback, CloseFd, Tracks, flags, Taken
<1>6. ASSUME NEW f \in Forks,
             \/ CreateFork(f) \/ (LoopAgain(f) /\ ~MainResets(f)) \/ ResumeExited(f)
             \/ GuestExit(f) \/ GuestThrows(f)
      PROVE  UNCHANGED Abstract!vars
  BY <1>6, OthersStutter DEF CreateFork, LoopAgain, MainResets, ResumeExited, GuestExit,
     GuestThrows, machine, flags, Taken
<1>7. UNCHANGED vars => UNCHANGED Abstract!vars
  BY OthersStutter DEF vars, machine, flags, Taken
<1> QED
  BY <1>1, <1>2, <1>3, <1>4, <1>5, <1>6, <1>7 DEF Next, HostStep, GuestStep

\* An ephemeral pool is a pool of single-use workers, for any number of forks
\* and of connections and however many guests, resets and creations fail.
THEOREM PoolRefines == Ephemeral /\ Spec => ImplementsSingleUse
<1> SUFFICES ASSUME Ephemeral PROVE Spec => ImplementsSingleUse
  OBVIOUS
<1>1. Init => Abstract!Init
  BY DEF Init, Abstract!Init
<1>2. IInv /\ [Next]_vars => [Abstract!Next]_(Abstract!vars)
  BY StepRefines
<1> QED BY <1>1, <1>2, PoolInvariant, PTL DEF Spec, ImplementsSingleUse, Abstract!Spec

=============================================================================
