---------------------------- MODULE MasterProofs ----------------------------
(***************************************************************************)
(* Proofs about Master, for any sockets, visitors and number of warmup     *)
(* connections.                                                            *)
(***************************************************************************)
EXTENDS Master, FiniteSetTheorems, TLAPS

\* Accepting a connection moves it.
LEMMA AcceptPlaces ==
    ASSUME TypeOK, Placed, NEW s \in Vfds, NEW c \in backlog[s], Accept(s, c),
           UNCHANGED <<client, request>>
    PROVE  Placed'
BY DEF TypeOK, Placed, Accept

\* No connection is in two places and warmup connections are served one after
\* the other: the invariant is inductive, one step per action.
LEMMA PlacedInductive == PlacedInv /\ [Next]_vars => PlacedInv'
<1> SUFFICES ASSUME PlacedInv, [Next]_vars PROVE PlacedInv'
  OBVIOUS
<1> USE DEF PlacedInv, vm, net, counters, thread, Started
<1>1. ASSUME NEW s \in Vfds, Listen(s) PROVE PlacedInv'
  BY <1>1 DEF Listen, TypeOK, ClientInRange, Placed
<1>2. ASSUME NEW s \in Vfds, CloseListener(s) PROVE PlacedInv'
  <2>1. TypeOK' /\ ClientInRange'
    <3>1. listening' \subseteq Vfds /\ backlog' \in [Vfds -> SUBSET Conns] /\ ended' \subseteq Conns
      BY <1>2 DEF CloseListener, TypeOK
    <3>2. UNCHANGED <<host, vm, open, gone, counters, thread, status>>
      BY <1>2 DEF CloseListener
    <3> QED BY <3>1, <3>2 DEF TypeOK, ClientInRange
  <2>2. Placed'
    BY <1>2 DEF CloseListener, TypeOK, Placed
  <2> QED BY <2>1, <2>2
<1>3. ASSUME NEW call \in {"Epoll", "Poll"}, NEW vfds \in SUBSET Vfds,
             BootPoll(call, vfds) \/ WarmupPoll(call, vfds)
      PROVE  PlacedInv'
  <2>1. CASE BootPoll(call, vfds)
    <3>1. TypeOK'
      BY <1>3, <2>1 DEF BootPoll, Stop, TypeOK, HostStates, PollMethods, Pauses
    <3> QED BY <2>1, <3>1 DEF BootPoll, Stop, ClientInRange, Placed
  <2>2. CASE WarmupPoll(call, vfds)
    <3>1. TypeOK'
      BY <1>3, <2>2 DEF WarmupPoll, Stop, TypeOK, HostStates, PollMethods, Pauses
    <3> QED BY <2>2, <3>1 DEF WarmupPoll, Stop, ClientInRange, Placed
  <2> QED BY <1>3, <2>1, <2>2
<1>4. ASSUME NEW s \in Vfds, BootAccept(s) PROVE PlacedInv'
  <2>1. CASE BootAcceptStops(s)
    <3>1. TypeOK'
      BY <1>4, <2>1 DEF BootAccept, Stop, TypeOK, HostStates, PollMethods, Pauses
    <3> QED BY <1>4, <2>1, <3>1 DEF BootAccept, Stop, ClientInRange, Placed
  <2>2. CASE ~BootAcceptStops(s)
    <3>1. PICK c \in backlog[s] : Accept(s, c)
      BY <1>4, <2>2 DEF BootAccept
    <3>2. UNCHANGED <<host, vm, counters, thread, status>>
      BY <1>4, <2>2 DEF BootAccept
    <3>3. TypeOK'
      BY <3>1, <3>2 DEF TypeOK, Accept
    <3>4. Placed'
      BY <3>1, <3>2, AcceptPlaces
    <3> QED BY <3>2, <3>3, <3>4 DEF ClientInRange
  <2> QED BY <2>1, <2>2
<1>5. ASSUME NEW s \in Vfds, accept_socket_callback(s), host' = "warmup",
             UNCHANGED <<vm, thread, status>>
      PROVE  PlacedInv'
  <2>1. PICK c \in backlog[s] : /\ Accept(s, c)
                                /\ accepted_sockets' = accepted_sockets \cup {c}
                                /\ UNCHANGED freed_sockets
    BY <1>5 DEF accept_socket_callback
  <2>2. TypeOK'
    BY <1>5, <2>1 DEF TypeOK, HostStates, Accept
  <2>3. Placed'
    BY <1>5, <2>1, AcceptPlaces
  <2> QED BY <1>5, <2>2, <2>3 DEF ClientInRange
<1>6. ASSUME NEW s \in Vfds, WarmupAccept(s) PROVE PlacedInv'
  <2>1. CASE accept_socket_callback(s) /\ UNCHANGED <<host, vm, thread, status>>
    BY <1>5, <1>6, <2>1 DEF WarmupAccept, TypeOK, HostStates
  <2>2. CASE Stop("Blocking", {s}) /\ UNCHANGED <<m_tracked_client_vfd, m_poll_method, net,
                                                  counters, thread, status>>
    <3>1. TypeOK'
      BY <1>6, <2>2 DEF WarmupAccept, Stop, TypeOK, HostStates, PollMethods, Pauses
    <3> QED BY <1>6, <2>2, <3>1 DEF WarmupAccept, Stop, ClientInRange, Placed
  <2> QED BY <1>6, <2>1, <2>2 DEF WarmupAccept
<1>7. ASSUME NEW c \in Conns, GuestClose(c) PROVE PlacedInv'
  <2>1. TypeOK'
    BY <1>7 DEF GuestClose, free_fd_callback, TypeOK
  <2>2. Placed'
    BY <1>7 DEF GuestClose, TypeOK, Placed
  <2> QED BY <1>7, <2>1, <2>2 DEF GuestClose, ClientInRange
<1>8. ASSUME GuestExit \/ GuestThrows \/ BootTimeout \/ SingleAgain PROVE PlacedInv'
  <2>1. /\ host' \in HostStates \ {"boot", "ready"}
        /\ host' = "booted" => host = "boot"
        /\ host' \in {"serve", "caught", "spin"} => Started
    BY <1>8 DEF GuestExit, GuestThrows, BootTimeout, SingleAgain, InGuest, Fail, HostStates
  <2>2. status' \in {"running", "0", "1", "abort"}
    BY <1>8 DEF GuestExit, GuestThrows, BootTimeout, SingleAgain, Fail, TypeOK
  <2>3. UNCHANGED <<vm, net, counters, thread>>
    BY <1>8 DEF GuestExit, GuestThrows, BootTimeout, SingleAgain
  <2> QED BY <2>1, <2>2, <2>3 DEF TypeOK, ClientInRange, Placed
<1>9. ASSUME BootReturns PROVE PlacedInv'
  <2>1. client = "none" /\ request = 1
    BY <1>9 DEF BootReturns, ClientInRange
  <2>2. TypeOK'
    <3>1. /\ host' \in HostStates /\ status' \in {"running", "0", "1", "abort"}
          /\ m_waiting_for_requests' \in BOOLEAN
      BY <1>9 DEF BootReturns, ExitNormally, Fail, TypeOK, HostStates
    <3>2. UNCHANGED <<m_tracked_client_vfd, m_poll_method, pause, net, counters>>
      BY <1>9 DEF BootReturns
    <3>3. /\ client' \in {"none", "connect", "recv", "done"} /\ request' \in Nat
          /\ serv_addr' \in Vfds \cup {NoVfd} /\ joinable' \in BOOLEAN
          /\ warmup_thread_stop_please' \in BOOLEAN
      BY <1>9 DEF BootReturns, begin_warmup_client, TypeOK
    <3> QED BY <3>1, <3>2, <3>3 DEF TypeOK
  <2>3. ClientInRange'
    BY <1>9, <2>1, ConfigAssumption DEF BootReturns, begin_warmup_client, ExitNormally, Fail, ClientInRange,
       WarmupConns
  <2>4. Placed'
    BY <1>9, <2>1 DEF BootReturns, begin_warmup_client, Placed
  <2> QED BY <2>2, <2>3, <2>4
<1>10. ASSUME RestartPoll PROVE PlacedInv'
  <2>1. CASE \E s \in pause.vfds : accept_socket_callback(s)
    BY <1>5, <1>10, <2>1 DEF RestartPoll, HostStates, TypeOK, Pauses
  <2>2. CASE UNCHANGED <<net, counters>>
    BY <1>10, <2>2 DEF RestartPoll, TypeOK, HostStates, ClientInRange, Placed
  <2> QED BY <1>10, <2>1, <2>2 DEF RestartPoll
<1>11. ASSUME WarmupReturns \/ Join PROVE PlacedInv'
  <2>1. /\ host' \in {"join", "ready", "exited"}
        /\ host' = "ready" => client \in {"none", "done"}
        /\ UNCHANGED <<vm, net, counters, client, request, serv_addr>>
    BY <1>11 DEF WarmupReturns, Join, ClientFinished, Fail
  <2>2. /\ joinable' \in BOOLEAN /\ warmup_thread_stop_please' \in BOOLEAN
        /\ status' \in {"running", "0", "1", "abort"}
    BY <1>11 DEF WarmupReturns, Join, Fail, TypeOK
  <2> QED BY <2>1, <2>2 DEF TypeOK, HostStates, ClientInRange, Placed
<1>12. ASSUME ClientConnect PROVE PlacedInv'
  <2>1. request \in WarmupConns /\ request \in Nat
    BY <1>12 DEF ClientConnect, ClientInRange, TypeOK
  <2>2. request \notin Visitors
    BY <2>1, VisitorsAssumption
  <2>3. TypeOK'
    BY <1>12, <2>1 DEF ClientConnect, TypeOK, Conns
  <2>4. ClientInRange'
    BY <1>12, <2>1 DEF ClientConnect, ClientInRange
  <2>5. Placed'
    BY <1>12, <2>1, <2>2 DEF ClientConnect, TypeOK, Placed
  <2> QED BY <2>3, <2>4, <2>5
<1>13. ASSUME ClientNext PROVE PlacedInv'
  <2>1. request \in WarmupConns /\ request \in Nat /\ WarmupConnects \in Nat
    BY <1>13, ConfigAssumption DEF ClientNext, ClientInRange, TypeOK
  <2>2. TypeOK'
    BY <1>13, <2>1 DEF ClientNext, TypeOK
  <2>3. ClientInRange'
    BY <1>13, <2>1 DEF ClientNext, ClientInRange, WarmupConns
  <2>4. Placed'
    BY <1>13, <2>1, VisitorsAssumption DEF ClientNext, TypeOK, Placed, Conns, WarmupConns
  <2> QED BY <2>2, <2>3, <2>4
<1>14. ASSUME NEW v \in Visitors, NEW s \in Vfds, Visit(v, s) PROVE PlacedInv'
  <2>1. TypeOK'
    BY <1>14 DEF Visit, TypeOK, Conns
  <2>2. Placed'
    BY <1>14 DEF Visit, TypeOK, Placed
  <2> QED BY <1>14, <2>1, <2>2 DEF Visit, ClientInRange
<1>15. ASSUME NEW s \in Vfds, NEW c \in backlog[s], Accept(s, c), host' = "serve", Started,
              UNCHANGED <<vm, thread, status>>,
              UNCHANGED counters \/ (accepted_sockets' = {} /\ freed_sockets' = 0)
       PROVE  PlacedInv'
  <2>1. TypeOK'
    BY <1>15 DEF TypeOK, HostStates, Accept
  <2>2. Placed'
    BY <1>15, AcceptPlaces
  <2> QED BY <1>15, <2>1, <2>2 DEF ClientInRange
<1>16. ASSUME NEW s \in Vfds, NEW c \in Conns, ServeAccept(s, c) PROVE PlacedInv'
  BY <1>15, <1>16 DEF ServeAccept
<1>17. ASSUME SingleStart PROVE PlacedInv'
  <2>1. CASE \E s \in pause.vfds : \E c \in backlog[s] : Accept(s, c)
    BY <1>15, <1>17, <2>1 DEF SingleStart, TypeOK, Pauses
  <2>2. CASE UNCHANGED net
    BY <1>17, <2>2 DEF SingleStart, TypeOK, HostStates, ClientInRange, Placed
  <2> QED BY <1>17, <2>1, <2>2 DEF SingleStart
<1>18. ASSUME NEW c \in Conns, GuestShutdown(c) PROVE PlacedInv'
  <2>1. TypeOK'
    BY <1>18 DEF GuestShutdown, TypeOK
  <2>2. Placed'
    BY <1>18 DEF GuestShutdown, TypeOK, Placed
  <2> QED BY <1>18, <2>1, <2>2 DEF GuestShutdown, ClientInRange
<1>19. CASE UNCHANGED vars
  BY <1>19 DEF vars, TypeOK, ClientInRange, Placed
<1> QED
  BY <1>1, <1>2, <1>3, <1>4, <1>6, <1>7, <1>8, <1>9, <1>10, <1>11, <1>12, <1>13, <1>14, <1>16, <1>17, <1>18, <1>19
     DEF Next, HostStep, ClientStep, GuestStep

\* No connection exists before the guest runs.
LEMMA PlacedInitially == Init => PlacedInv
<1> SUFFICES ASSUME Init PROVE PlacedInv
  OBVIOUS
<1>1. TypeOK
  BY DEF Init, TypeOK, HostStates, PollMethods, Pauses
<1>2. ClientInRange
  BY DEF Init, ClientInRange
<1>3. Placed
  BY DEF Init, Placed
<1> QED BY <1>1, <1>2, <1>3 DEF PlacedInv

\* PlacedInv holds in every reachable state.
THEOREM MasterInvariant == Spec => []PlacedInv
BY PlacedInitially, PlacedInductive, PTL DEF Spec

\* A master that is ready holds no connection that the warmup client is still
\* at.
THEOREM MasterWarmupLeavesNobody == Spec => []WarmupLeavesNobody
<1>1. PlacedInv => WarmupLeavesNobody
  BY DEF PlacedInv, ClientInRange, Placed, WarmupLeavesNobody, Waiting, Started
<1> QED BY <1>1, MasterInvariant, PTL

-----------------------------------------------------------------------------
(* The count of the warmup.                                                 *)

\* A visitor that has connected is somewhere from then on.
LEMMA VisitorsStay == TypeOK /\ [Next]_vars /\ Undisturbed' => Undisturbed
<1> SUFFICES ASSUME TypeOK, [Next]_vars, Undisturbed' PROVE Undisturbed
  OBVIOUS
<1> DEFINE Seen(v) == v \in open \/ v \in ended \/ \E s \in Vfds : v \in backlog[s]
<1>1. Undisturbed <=> \A v \in Visitors : ~Seen(v)
  BY DEF Undisturbed, Waiting
<1>2. Undisturbed' <=> \A v \in Visitors : ~Seen(v)'
  BY DEF Undisturbed, Waiting
<1>3. SUFFICES ASSUME NEW v \in Visitors, Seen(v) PROVE Seen(v)'
  BY <1>1, <1>2
<1> USE DEF TypeOK, net
<1>4. ASSUME NEW s \in Vfds, NEW c \in backlog[s], Accept(s, c) PROVE Seen(v)'
  BY <1>3, <1>4 DEF Accept
<1>5. ASSUME NEW s \in Vfds, CloseListener(s) PROVE Seen(v)'
  BY <1>3, <1>5 DEF CloseListener
<1>6. ASSUME NEW c \in Conns, GuestClose(c) \/ GuestShutdown(c) PROVE Seen(v)'
  BY <1>3, <1>6 DEF GuestClose, GuestShutdown
<1>7. ASSUME ClientConnect \/ \E w \in Visitors, s \in Vfds : Visit(w, s) PROVE Seen(v)'
  BY <1>3, <1>7 DEF ClientConnect, Visit
<1>8. ASSUME UNCHANGED <<backlog, open, ended>> PROVE Seen(v)'
  BY <1>3, <1>8
<1>9. CASE HostStep
  BY <1>4, <1>8, <1>9 DEF HostStep, BootReturns, RestartPoll, accept_socket_callback, WarmupReturns, Join,
     SingleStart, SingleAgain, Pauses
<1>10. CASE GuestStep
  <2>1. ASSUME NEW s \in Vfds, Listen(s) \/ BootAccept(s) \/ WarmupAccept(s) PROVE Seen(v)'
    BY <1>4, <1>8, <2>1 DEF Listen, BootAccept, WarmupAccept, accept_socket_callback
  <2>2. ASSUME NEW s \in Vfds, NEW c \in Conns, ServeAccept(s, c) PROVE Seen(v)'
    BY <1>4, <2>2 DEF ServeAccept
  <2>3. ASSUME NEW call \in {"Epoll", "Poll"}, NEW vfds \in SUBSET Vfds,
               BootPoll(call, vfds) \/ WarmupPoll(call, vfds)
        PROVE  Seen(v)'
    BY <1>8, <2>3 DEF BootPoll, WarmupPoll
  <2>4. CASE GuestExit \/ GuestThrows
    BY <1>8, <2>4 DEF GuestExit, GuestThrows
  <2> QED BY <1>5, <1>6, <1>10, <2>1, <2>2, <2>3, <2>4 DEF GuestStep
<1>11. CASE ClientNext \/ BootTimeout \/ UNCHANGED vars
  BY <1>8, <1>11 DEF ClientNext, BootTimeout, vars
<1> QED BY <1>7, <1>9, <1>10, <1>11 DEF Next, ClientStep

\* The connections of the warmup client that the guest has closed.
LEMMA ServedFinite ==
    /\ IsFiniteSet(WarmupConns) /\ Cardinality(WarmupConns) = WarmupConnects
    /\ IsFiniteSet(gone \cap WarmupConns) /\ Cardinality(gone \cap WarmupConns) \in Nat
<1>1. IsFiniteSet(WarmupConns) /\ Cardinality(WarmupConns) = WarmupConnects
  BY FS_Interval, ConfigAssumption DEF WarmupConns
<1>2. IsFiniteSet(gone \cap WarmupConns)
  BY <1>1, FS_Subset
<1> QED BY <1>1, <1>2, FS_CardinalityType

\* A guest that has closed as many connections as the client makes has closed
\* the client's.
LEMMA WarmedUpServed ==
    ASSUME WarmupInv, WarmedUp, Undisturbed
    PROVE  WarmupConns \subseteq gone
<1>1. /\ WarmupConnects \in Nat /\ freed_sockets \in Nat /\ freed_sockets >= WarmupConnects
      /\ freed_sockets <= Cardinality(gone \cap WarmupConns)
  BY ConfigAssumption DEF WarmupInv, Counted, PlacedInv, TypeOK, WarmedUp
<1>2. /\ Cardinality(gone \cap WarmupConns) <= Cardinality(WarmupConns)
      /\ Cardinality(gone \cap WarmupConns) = Cardinality(WarmupConns) => gone \cap WarmupConns = WarmupConns
  BY ServedFinite, FS_Subset
<1>3. Cardinality(gone \cap WarmupConns) = Cardinality(WarmupConns)
  BY <1>1, <1>2, ServedFinite
<1> QED BY <1>2, <1>3

\* The count stays right, one step per kind of action.
LEMMA CountedInductive ==
    ASSUME WarmupInv, [Next]_vars
    PROVE  Counted'
<1>0. /\ TypeOK /\ ClientInRange /\ Placed /\ Counted
      /\ request \in Nat /\ freed_sockets \in Nat /\ WarmupConnects \in Nat
      /\ Undisturbed' => Undisturbed
  BY VisitorsStay, ConfigAssumption DEF WarmupInv, PlacedInv, TypeOK
<1> USE DEF vm, net, counters, thread
\* What no action but GuestClose and SingleStart changes.
<1> DEFINE Same == UNCHANGED <<freed_sockets, gone>>
           Ended == (host = "warmed" /\ m_waiting_for_requests) \/ host = "join" \/ Started
<1>1. ASSUME Same, host' \in {"restart", "warmup"} => ~m_waiting_for_requests',
             Ended' => Ended \/ WarmedUp \/ WarmupConnects = 0
      PROVE  Counted'
  <2>1. Undisturbed' => freed_sockets' <= Cardinality(gone' \cap WarmupConns)
    BY <1>0, <1>1 DEF Counted
  <2>2. Ended' => ~Undisturbed' \/ WarmupConns \subseteq gone'
    BY <1>0, <1>1, WarmedUpServed DEF Counted, WarmupConns
  <2> QED BY <1>1, <2>1, <2>2 DEF Counted
<1>2. ASSUME NEW s \in Vfds, Listen(s) \/ CloseListener(s) \/ BootAccept(s) \/ WarmupAccept(s)
      PROVE  Counted'
  BY <1>0, <1>1, <1>2 DEF Listen, CloseListener, BootAccept, WarmupAccept, accept_socket_callback, Accept,
     Stop, Counted, Started
<1>3. ASSUME NEW call \in {"Epoll", "Poll"}, NEW vfds \in SUBSET Vfds,
             BootPoll(call, vfds) \/ WarmupPoll(call, vfds)
      PROVE  Counted'
  BY <1>0, <1>1, <1>3 DEF BootPoll, WarmupPoll, Stop, Counted, Started
<1>4. ASSUME NEW s \in Vfds, NEW c \in Conns, ServeAccept(s, c) PROVE Counted'
  BY <1>0, <1>1, <1>4 DEF ServeAccept, Accept, Counted, Started
<1>5. ASSUME GuestExit \/ GuestThrows \/ BootTimeout PROVE Counted'
  BY <1>0, <1>1, <1>5 DEF GuestExit, GuestThrows, BootTimeout, InGuest, Fail, Counted, Started
<1>6. ASSUME BootReturns \/ WarmupReturns \/ Join \/ RestartPoll \/ SingleAgain PROVE Counted'
  BY <1>0, <1>1, <1>6 DEF BootReturns, begin_warmup_client, ExitNormally, WarmupReturns, Join, RestartPoll,
     SingleAgain, accept_socket_callback, Accept, Fail, Counted, Started
<1>7. ASSUME SingleStart PROVE Counted'
  <2>1. /\ freed_sockets' = 0 /\ host = "ready" /\ host' = "serve"
        /\ UNCHANGED gone
    BY <1>7 DEF SingleStart, Accept
  <2> QED BY <1>0, <2>1, ServedFinite DEF Counted, Started
<1>8. ASSUME NEW c \in Conns, GuestClose(c) PROVE Counted'
  <2>1. /\ gone' = gone \cup {c} /\ c \in open /\ c \notin gone
        /\ freed_sockets' \in {freed_sockets, freed_sockets + 1}
        /\ UNCHANGED <<host, m_waiting_for_requests>>
    BY <1>0, <1>8 DEF GuestClose, free_fd_callback, Placed
  <2>2. Undisturbed' => c \in WarmupConns
    BY <1>8 DEF GuestClose, Undisturbed, Conns
  <2>3. ASSUME Undisturbed'
        PROVE  Cardinality(gone' \cap WarmupConns) = Cardinality(gone \cap WarmupConns) + 1
    <3>1. gone' \cap WarmupConns = (gone \cap WarmupConns) \cup {c} /\ c \notin gone \cap WarmupConns
      BY <2>1, <2>2, <2>3
    <3> QED BY <3>1, ServedFinite, FS_AddElement
  <2>4. Undisturbed' => freed_sockets' <= Cardinality(gone' \cap WarmupConns)
    BY <1>0, <2>1, <2>3, ServedFinite DEF Counted
  <2> QED BY <1>0, <2>1, <2>4 DEF Counted, Started
<1>9. ASSUME ClientConnect \/ ClientNext \/ \E c \in Conns : GuestShutdown(c) PROVE Counted'
  BY <1>0, <1>1, <1>9 DEF ClientConnect, ClientNext, GuestShutdown, Counted, Started
<1>10. ASSUME NEW v \in Visitors, NEW s \in Vfds, Visit(v, s) PROVE Counted'
  BY <1>0, <1>1, <1>10 DEF Visit, Counted, Started
<1>11. CASE UNCHANGED vars
  BY <1>0, <1>1, <1>11 DEF vars, Counted, Started
<1> QED
  BY <1>2, <1>3, <1>4, <1>5, <1>6, <1>7, <1>8, <1>9, <1>10, <1>11
     DEF Next, HostStep, ClientStep, GuestStep

\* The whole invariant of the warmup holds in every reachable state.
THEOREM MasterWarmupInvariant == Spec => []WarmupInv
<1>1. Init => Counted
  BY ServedFinite DEF Init, Counted, Started
<1>2. WarmupInv /\ [Next]_vars => Counted'
  BY CountedInductive
<1> QED BY <1>1, <1>2, MasterInvariant, PTL DEF Spec, WarmupInv

\* warmup(): the guest has served all connections of the client when the master
\* is ready, unless visitors were counted in their place.
THEOREM MasterWarmupComplete == Spec => []WarmupComplete
<1>1. WarmupInv => WarmupComplete
  BY DEF WarmupInv, Counted, WarmupComplete
<1> QED BY <1>1, MasterWarmupInvariant, PTL

\* stop_warmup_client(): with the client's connections closed, the only one it
\* can still be waiting for is its last.
THEOREM MasterJoinWaitsForNobody == Spec => []JoinWaitsForNobody
<1>1. ASSUME WarmupInv, host = "join", Undisturbed, ~ClientFinished
      PROVE  client = "recv" /\ request = WarmupConnects /\ request \in gone
  <2>1. WarmupConns \subseteq gone /\ request \in WarmupConns /\ client \in {"connect", "recv"}
    BY <1>1 DEF WarmupInv, PlacedInv, TypeOK, ClientInRange, Counted, ClientFinished
  <2>2. \A c \in gone : c < request \/ (client = "recv" /\ c = request)
    BY <1>1 DEF WarmupInv, PlacedInv, Placed, Undisturbed
  <2>3. WarmupConnects \in Nat /\ WarmupConnects \in WarmupConns /\ request \in 1 .. WarmupConnects
    BY <2>1, ConfigAssumption DEF WarmupConns
  <2> QED BY <2>1, <2>2, <2>3
<1>2. WarmupInv => JoinWaitsForNobody
  BY <1>1 DEF JoinWaitsForNobody
<1> QED BY <1>2, MasterWarmupInvariant, PTL

-----------------------------------------------------------------------------
(* The static warmup_threads.                                               *)

\* Every step keeps AbortedByClient.
LEMMA AbortedInductive ==
    PlacedInv /\ AbortedByClient /\ [Next]_vars => AbortedByClient'
<1> SUFFICES ASSUME PlacedInv, AbortedByClient, [Next]_vars PROVE AbortedByClient'
  OBVIOUS
<1> USE DEF vm, net, counters, thread
<1>1. ASSUME UNCHANGED <<client, joinable, status>>, host # "exited" /\ host' # "exited",
             Started => Started'
      PROVE  AbortedByClient'
  BY <1>1 DEF AbortedByClient
<1>2. ASSUME Fail, UNCHANGED client, ~Started, host # "exited" PROVE AbortedByClient'
  BY <1>2 DEF Fail, AbortedByClient
<1>3. CASE BootReturns
  <2>1. client = "none" /\ ~joinable /\ ~Started
    BY <1>3 DEF BootReturns, PlacedInv, ClientInRange, AbortedByClient, Started
  <2>2. CASE ExitNormally /\ UNCHANGED thread
    BY <2>1, <2>2 DEF ExitNormally, AbortedByClient
  <2>3. CASE host' = "restart" /\ begin_warmup_client
    BY <2>1, <2>3 DEF begin_warmup_client, AbortedByClient
  <2>4. CASE host' = "ready"
    BY <2>4 DEF AbortedByClient, Started
  <2> QED BY <1>2, <1>3, <2>1, <2>2, <2>3, <2>4 DEF BootReturns
<1>4. CASE RestartPoll
  BY <1>1, <1>4 DEF RestartPoll, Started
<1>5. CASE WarmupReturns
  BY <1>1, <1>2, <1>5 DEF WarmupReturns, Started
<1>6. CASE Join \/ SingleStart \/ SingleAgain
  BY <1>6 DEF Join, SingleStart, SingleAgain, AbortedByClient, Started
<1>7. CASE ClientConnect \/ ClientNext
  <2>1. /\ client # "none" /\ client' # "none" /\ host # "exited"
        /\ UNCHANGED <<host, joinable, status>>
    BY <1>7 DEF ClientConnect, ClientNext
  <2> QED BY <2>1 DEF AbortedByClient, Started
<1>8. ASSUME NEW s \in Vfds, Listen(s) \/ CloseListener(s) \/ BootAccept(s) \/ WarmupAccept(s)
      PROVE  AbortedByClient'
  BY <1>1, <1>8 DEF Listen, CloseListener, InGuest, BootAccept, WarmupAccept, Stop, Started
<1>9. ASSUME NEW call \in {"Epoll", "Poll"}, NEW vfds \in SUBSET Vfds,
             BootPoll(call, vfds) \/ WarmupPoll(call, vfds)
      PROVE  AbortedByClient'
  BY <1>1, <1>9 DEF BootPoll, WarmupPoll, Stop, Started
<1>10. ASSUME NEW s \in Vfds, NEW c \in Conns, ServeAccept(s, c) PROVE AbortedByClient'
  BY <1>1, <1>10 DEF ServeAccept, Started
<1>11. CASE GuestExit \/ GuestThrows \/ BootTimeout
  BY <1>1, <1>2, <1>11 DEF GuestExit, GuestThrows, BootTimeout, InGuest, Started
<1>12. ASSUME NEW c \in Conns, GuestClose(c) \/ GuestShutdown(c) PROVE AbortedByClient'
  BY <1>1, <1>12 DEF GuestClose, GuestShutdown, InGuest, Started
<1>13. ASSUME NEW v \in Visitors, NEW s \in Vfds, Visit(v, s) PROVE AbortedByClient'
  BY <1>1, <1>13 DEF Visit, Started
<1>14. CASE UNCHANGED vars
  BY <1>14 DEF vars, AbortedByClient, Started
<1> QED
  BY <1>3, <1>4, <1>5, <1>6, <1>7, <1>8, <1>9, <1>10, <1>11, <1>12, <1>13, <1>14
     DEF Next, HostStep, ClientStep, GuestStep

\* The process ends in std::terminate exactly when it ends with a warmup client
\* that was started and not joined.
THEOREM MasterAbortedByClient == Spec => []AbortedByClient
<1>1. Init => AbortedByClient
  BY DEF Init, AbortedByClient
<1> QED BY <1>1, AbortedInductive, MasterInvariant, PTL DEF Spec

=============================================================================
