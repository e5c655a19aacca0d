----------------------------- MODULE NetAccess -----------------------------
(***************************************************************************)
(* Which network addresses a guest may connect to and listen on: the lists *)
(* Configuration::FromArgs builds from --allow-net, --allow-connect and    *)
(* --allow-listen (config.cpp, parse_addresses), and the callbacks that    *)
(* look addresses up in them (vm.cpp), one of which is asked again when a  *)
(* socket of the main VM starts to listen.  A fork takes over the callbacks  *)
(* for connect and bind, not the one for listen.                           *)
(*                                                                         *)
(* A list is the set of its entries: it is only ever cleared, appended to, *)
(* copied and searched for any match.  The text of an option value is      *)
(* abstracted to its form, its host part and the number after its colon.   *)
(***************************************************************************)
EXTENDS Naturals, FiniteSets

CONSTANTS
    Addrs4, Addrs6,      \* addresses of each family
    Any4, Any6,          \* 0.0.0.0 and ::
    Names, Resolve,      \* domain names and what getaddrinfo answers, {} if it fails
    UnixPaths,           \* paths of unix sockets
    UnixAllowed,         \* those both readable and writable
    PortMax,             \* the largest in_port_t
    UintMax, UlongMax,   \* the largest uint and the largest unsigned long
    Numbers,             \* numbers a value may have after its colon
    NoPort,              \* a value without a colon
    Nowhere,             \* no socket has been bound
    MaxValues            \* bound on the number of option values

ASSUME AddrsAssumption == Any4 \in Addrs4 /\ Any6 \in Addrs6
ASSUME PortsAssumption ==
    /\ PortMax \in Nat /\ UintMax \in Nat /\ UlongMax \in Nat
    /\ PortMax > 0 /\ PortMax <= UintMax /\ UintMax <= UlongMax
    /\ Numbers \subseteq Nat /\ NoPort \notin Nat
ASSUME ResolveAssumption ==
    Resolve \in [Names -> SUBSET ([family : {"v4"}, addr : Addrs4]
                                  \cup [family : {"v6"}, addr : Addrs6])]
ASSUME UnixAssumption == UnixAllowed \subseteq UnixPaths

Ports == 0 .. PortMax
Endpoints ==
    [family : {"v4"}, addr : Addrs4, port : Ports]
    \cup [family : {"v6", "unspec"}, addr : Addrs6, port : Ports]
    \cup [family : {"unix"}, addr : UnixPaths, port : {0}]

ASSUME NowhereAssumption == Nowhere \notin Endpoints

\* "none" is "" or false; "bad" has no digits after its colon or a bracket
\* that is not closed; "host" has nothing before its colon.
Values ==
    [form : {"none", "true", "bad"}, host : {Any4}, port : {NoPort}]
    \cup [form : {"host"}, host : {Any4}, port : Numbers]
    \cup [form : {"v4"}, host : Addrs4, port : Numbers \cup {NoPort}]
    \cup [form : {"v6"}, host : Addrs6, port : Numbers \cup {NoPort}]
    \cup [form : {"name"}, host : Names, port : Numbers \cup {NoPort}]

VARIABLES
    stage,             \* the option FromArgs is at, "ready" or "exited"
    given,             \* history: the values seen, with their option
    allowed_connect,   \* allowed_connect_ipv4 and allowed_connect_ipv6
    allowed_listen,    \* allowed_listen_ipv4 and allowed_listen_ipv6
    fork,              \* whether the guest runs in a fork
    bound,             \* history: the address it gave to bind(2)
    socket,            \* the name of its socket
    listening          \* whether the socket listens

lists == <<allowed_connect, allowed_listen>>
guest == <<fork, bound, socket, listening>>
vars == <<stage, given, lists, guest>>

Options == {"net", "connect", "listen"}
Entries(Addrs) == [addr : Addrs, port : Ports]
Lists == [ipv4 : SUBSET Entries(Addrs4), ipv6 : SUBSET Entries(Addrs6)]
NoEntries == [ipv4 |-> {}, ipv6 |-> {}]

TypeOK ==
    /\ stage \in Options \cup {"ready", "exited"}
    /\ given \subseteq Options \X Values
    /\ allowed_connect \in Lists
    /\ allowed_listen \in Lists
    /\ fork \in BOOLEAN
    /\ bound \in Endpoints \cup {Nowhere}
    /\ socket \in Endpoints \cup {Nowhere}
    /\ listening \in BOOLEAN

Init ==
    /\ stage = "net"
    /\ given = {}
    /\ allowed_connect = NoEntries
    /\ allowed_listen = NoEntries
    /\ fork \in BOOLEAN
    /\ bound = Nowhere
    /\ socket = Nowhere
    /\ listening = FALSE

-----------------------------------------------------------------------------
(* parse_addresses.                                                         *)

\* std::stoul assigned to a uint.
port(v) == IF v.port = NoPort THEN 0 ELSE v.port % (UintMax + 1)

\* The values for which it throws, those std::stoul throws for included.  The
\* brackets of an IPv6 address are taken off by the length of the whole value:
\* with a port, the closing one stays.
Invalid(v) ==
    \/ v.form = "bad"
    \/ v.port # NoPort /\ v.port > UlongMax
    \/ port(v) > PortMax
    \/ v.form = "v6" /\ v.port # NoPort
    \/ v.form = "name" /\ Resolve[v.host] = {}

\* The value clears the lists, is the only entry and ends the loop.
Everything(v) == v.form \in {"true", "host"} /\ port(v) = 0

Resolved(v, family) ==
    {[addr |-> a.addr, port |-> port(v)] : a \in {b \in Resolve[v.host] : b.family = family}}

NewIPv4(v) ==
    CASE v.form \in {"true", "host"} -> {[addr |-> Any4, port |-> port(v)]}
      [] v.form = "v4" -> {[addr |-> v.host, port |-> port(v)]}
      [] v.form = "name" -> Resolved(v, "v4")
      [] OTHER -> {}

\* The reference that takes the port of a value without host still stands for
\* the IPv4 entry: the IPv6 entry keeps port 0.
NewIPv6(v) ==
    CASE v.form \in {"true", "host"} -> {[addr |-> Any6, port |-> 0]}
      [] v.form = "v6" -> {[addr |-> v.host, port |-> port(v)]}
      [] v.form = "name" -> Resolved(v, "v6")
      [] OTHER -> {}

\* A form of Cleared that clears the lists for every value without a host.
Cleared_always(v) == v.form \in {"true", "host"}

Cleared(v) == Everything(v)

Parsed(list, v) ==
    [ipv4 |-> (IF Cleared(v) THEN {} ELSE list.ipv4) \cup NewIPv4(v),
     ipv6 |-> (IF Cleared(v) THEN {} ELSE list.ipv6) \cup NewIPv6(v)]

Give(option, v) ==
    /\ stage = option
    /\ Cardinality(given) < MaxValues
    /\ given' = given \cup {<<option, v>>}
    /\ UNCHANGED guest

\* A value that throws: the program ends.
Reject(option, v) ==
    /\ Give(option, v)
    /\ Invalid(v)
    /\ stage' = "exited"
    /\ UNCHANGED lists

\* A form of CopyToListen that leaves the listen lists as they are.
CopyToListen_forgotten == UNCHANGED allowed_listen

\* What --allow-net allows is copied when its values have been parsed.
CopyToListen == allowed_listen' = allowed_connect'

\* --allow-net fills the connect lists; if it allows everything, the other two
\* options are not looked at.
AllowNet(v) ==
    /\ Give("net", v)
    /\ ~Invalid(v)
    /\ allowed_connect' = Parsed(allowed_connect, v)
    /\ IF Everything(v)
       THEN stage' = "ready" /\ CopyToListen
       ELSE UNCHANGED <<stage, allowed_listen>>

AllowConnect(v) ==
    /\ Give("connect", v)
    /\ ~Invalid(v)
    /\ allowed_connect' = Parsed(allowed_connect, v)
    /\ stage' = IF Everything(v) THEN "listen" ELSE stage
    /\ UNCHANGED allowed_listen

AllowListen(v) ==
    /\ Give("listen", v)
    /\ ~Invalid(v)
    /\ allowed_listen' = Parsed(allowed_listen, v)
    /\ stage' = IF Everything(v) THEN "ready" ELSE stage
    /\ UNCHANGED allowed_connect

\* The values of an option have all been parsed.
NextOption ==
    /\ \/ stage = "net" /\ stage' = "connect" /\ UNCHANGED allowed_connect /\ CopyToListen
       \/ stage = "connect" /\ stage' = "listen" /\ UNCHANGED lists
       \/ stage = "listen" /\ stage' = "ready" /\ UNCHANGED lists
    /\ UNCHANGED <<given, guest>>

-----------------------------------------------------------------------------
(* The callbacks.                                                           *)

PortMatches(entry, e) == entry.port = e.port \/ entry.port = 0

Matches(entries, any, e) ==
    \E entry \in entries : entry.addr \in {any, e.addr} /\ PortMatches(entry, e)

\* validate_network_access; unix sockets go by their path.
Allowed(list, e) ==
    \/ e.family = "v4" /\ Matches(list.ipv4, Any4, e)
    \/ e.family \in {"v6", "unspec"} /\ Matches(list.ipv6, Any6, e)
    \/ e.family = "unix" /\ e.addr \in UnixAllowed

\* connect_socket_callback and bind_socket_callback.
connect_socket_callback(e) == Allowed(allowed_connect, e)
bind_socket_callback(e) == Allowed(allowed_listen, e)

\* The kernel gives a socket that asks for port 0 a port of its choice.
Assigned(e) ==
    IF e.family # "unix" /\ e.port = 0
    THEN {[e EXCEPT !.port = p] : p \in Ports \ {0}}
    ELSE {e}

\* The name bind(2) asks the kernel for: on an IPv4 socket it takes AF_UNSPEC
\* to mean 0.0.0.0.
Named(e) == IF e.family = "unspec" THEN [family |-> "v4", addr |-> Any4, port |-> e.port] ELSE e

\* bind(2) of the guest.
Bind(e) ==
    /\ stage = "ready" /\ socket = Nowhere
    /\ bind_socket_callback(e)
    /\ bound' = e
    /\ socket' \in Assigned(Named(e))
    /\ UNCHANGED <<stage, given, lists, fork, listening>>

\* validate_listener, by getsockname.
validate_listener(name) == Allowed(allowed_listen, name)

\* A form of listening_socket_callback of a main VM that has none either.
listening_socket_callback_unset(name) == TRUE

\* A fork has no listening_socket_callback.
listening_socket_callback(name) == fork \/ validate_listener(name)

\* listen(2) of the guest on a socket it has bound.
ListenBound ==
    /\ stage = "ready" /\ socket # Nowhere /\ ~listening
    /\ listening_socket_callback(socket)
    /\ listening' = TRUE
    /\ UNCHANGED <<stage, given, lists, fork, bound, socket>>

\* listen(2) on a socket that has no name yet: the callback sees port 0 of any
\* address, and the kernel chooses the port after that.
ListenUnbound(name) ==
    /\ stage = "ready" /\ socket = Nowhere
    /\ listening_socket_callback(name)
    /\ socket' \in Assigned(name)
    /\ listening' = TRUE
    /\ UNCHANGED <<stage, given, lists, fork, bound>>

Unnamed == {[family |-> "v4", addr |-> Any4, port |-> 0], [family |-> "v6", addr |-> Any6, port |-> 0]}

-----------------------------------------------------------------------------

Next ==
    \/ \E v \in Values :
          \/ \E o \in Options : Reject(o, v)
          \/ AllowNet(v) \/ AllowConnect(v) \/ AllowListen(v)
    \/ NextOption
    \/ \E e \in Endpoints : Bind(e)
    \/ ListenBound
    \/ \E name \in Unnamed : ListenUnbound(name)

Spec == Init /\ [][Next]_vars

-----------------------------------------------------------------------------
(* Properties.                                                              *)

\* What the user means by a value: that host or any, of either family if the
\* value has none ...
MeansHost(v, e) ==
    \/ v.form \in {"true", "host"}
    \/ v.form = "v4" /\ e.family = "v4" /\ v.host \in {Any4, e.addr}
    \/ v.form = "v6" /\ e.family # "v4" /\ v.host \in {Any6, e.addr}
    \/ /\ v.form = "name"
       /\ \E a \in Resolve[v.host] :
             IF a.family = "v4" THEN e.family = "v4" /\ a.addr \in {Any4, e.addr}
             ELSE e.family # "v4" /\ a.addr \in {Any6, e.addr}

\* ... and the port that is written, or any if none or 0 is.
MeansPort(v, e) == v.port \in {NoPort, 0, e.port}

\* Values whose port is not kept: the one of a value without host never gets to
\* the IPv6 entry, and a number that does not fit a uint is cut to one.
Astray(v, e) == (v.form = "host" /\ e.family # "v4") \/ (v.port # NoPort /\ v.port > UintMax)

\* Some value of one of the options means e; or it means the host of e, and its
\* port went astray.
Asked(options, e) ==
    \E g \in given : g[1] \in options /\ MeansHost(g[2], e) /\ MeansPort(g[2], e)
Overgranted(options, e) ==
    \E g \in given : g[1] \in options /\ MeansHost(g[2], e) /\ Astray(g[2], e)

Network == {e \in Endpoints : e.family # "unix"}

\* When the options have been parsed, the callbacks allow what an option asks
\* for, and nothing else but other ports of a host whose port parse_addresses
\* loses (config.cpp:162 and 143).  The values of --allow-net count for both
\* directions, those of the other two for their own, in whatever order they came
\* and whichever of them cleared the lists.
AccessAsAsked ==
    stage = "ready" => \A e \in Network :
        /\ Asked({"net", "connect"}, e) => connect_socket_callback(e)
        /\ connect_socket_callback(e) =>
              Asked({"net", "connect"}, e) \/ Overgranted({"net", "connect"}, e)
        /\ Asked({"net", "listen"}, e) => bind_socket_callback(e)
        /\ bind_socket_callback(e) =>
              Asked({"net", "listen"}, e) \/ Overgranted({"net", "listen"}, e)

\* No option takes back what an earlier one allowed: clear() in parse_addresses
\* is always followed by an entry that allows everything.
OptionsOnlyGrant ==
    [][\A e \in Network :
        /\ Allowed(allowed_connect, e) => Allowed(allowed_connect, e)'
        /\ Allowed(allowed_listen, e) => Allowed(allowed_listen, e)']_lists

\* The guest has bound its socket, by an address of the family of the socket.
BoundByFamily == bound # Nowhere /\ bound.family # "unspec"

\* A socket that listens does so at an address the listen lists allow: in the
\* main VM always, also when it was bound by AF_UNSPEC, for which the IPv6 lists
\* were asked, or the kernel chose its port after listening_socket_callback had
\* been asked; in a fork, which has no such callback, when it was bound by family.
ListensWhereAllowed == listening /\ (fork => BoundByFamily) => Allowed(allowed_listen, socket)

\* A list allows all that the options ask for, and nothing else unless a port
\* went astray.
AsAsked(list, options) ==
    \A e \in Network :
        /\ Asked(options, e) => Allowed(list, e)
        /\ Allowed(list, e) => Asked(options, e) \/ Overgranted(options, e)

\* The inductive invariant behind them: at every stage the lists hold what has
\* been asked for so far, the listen lists are empty until --allow-net is copied
\* to them, and a name got by family is one they allow.
NetInv ==
    /\ TypeOK
    /\ \A g \in given :
          /\ stage = "net" => g[1] = "net"
          /\ stage = "connect" => g[1] # "listen"
    /\ stage = "net" => allowed_listen = NoEntries
    /\ stage # "exited" => AsAsked(allowed_connect, {"net", "connect"})
    /\ stage \notin {"net", "exited"} => AsAsked(allowed_listen, {"net", "listen"})
    /\ stage # "ready" => socket = Nowhere
    /\ socket = Nowhere => bound = Nowhere /\ ~listening
    /\ BoundByFamily => Allowed(allowed_listen, socket)

=============================================================================
