-------------------------- MODULE NetAccessProofs --------------------------
(***************************************************************************)
(* Proofs about NetAccess, for any addresses, names, ports and number of   *)
(* option values.                                                          *)
(***************************************************************************)
EXTENDS NetAccess, TLAPS

\* What the entries of a value allow: its host, with the port as it was stored.
Gives(v, e) ==
    MeansHost(v, e) /\ (port(v) \in {0, e.port} \/ (v.form = "host" /\ e.family # "v4"))

New(v) == [ipv4 |-> NewIPv4(v), ipv6 |-> NewIPv6(v)]

\* Addresses that ask the network lists are of one of three families.
LEMMA Families ==
    ASSUME NEW e \in Network
    PROVE  /\ e.family \in {"v4", "v6", "unspec"}
           /\ e.port \in Ports
           /\ e.family = "v4" => ~(e.family \in {"v6", "unspec"})
BY DEF Network, Endpoints

\* The port parse_addresses stores is a port.
LEMMA PortType ==
    ASSUME NEW v \in Values
    PROVE  port(v) \in Nat /\ (~Invalid(v) => port(v) \in Ports)
<1>1. v.port = NoPort \/ v.port \in Nat
  BY PortsAssumption DEF Values
<1>2. port(v) \in Nat
  BY <1>1, PortsAssumption DEF port
<1> QED BY <1>2, PortsAssumption DEF Invalid, Ports

\* A search in a list with one entry, and in one with an entry per address of a
\* name.
LEMMA MatchesOne ==
    ASSUME NEW a, NEW p, NEW any, NEW e
    PROVE  Matches({[addr |-> a, port |-> p]}, any, e) <=> a \in {any, e.addr} /\ p \in {0, e.port}
<1> DEFINE entry == [addr |-> a, port |-> p]
<1>1. entry.addr = a /\ entry.port = p
  OBVIOUS
<1>2. Matches({entry}, any, e) <=> entry.addr \in {any, e.addr} /\ PortMatches(entry, e)
  BY DEF Matches
<1> QED BY <1>1, <1>2 DEF PortMatches

\* An empty list matches nothing.
LEMMA MatchesNone ==
    ASSUME NEW any, NEW e
    PROVE  ~Matches({}, any, e)
BY DEF Matches

\* What the addresses of one host name match.
LEMMA MatchesResolved ==
    ASSUME NEW v, NEW family, NEW any, NEW e
    PROVE  Matches(Resolved(v, family), any, e) <=>
             /\ port(v) \in {0, e.port}
             /\ \E a \in Resolve[v.host] : a.family = family /\ a.addr \in {any, e.addr}
<1>1. ASSUME Matches(Resolved(v, family), any, e)
      PROVE  /\ port(v) \in {0, e.port}
             /\ \E a \in Resolve[v.host] : a.family = family /\ a.addr \in {any, e.addr}
  <2>1. PICK entry \in Resolved(v, family) : entry.addr \in {any, e.addr} /\ PortMatches(entry, e)
    BY <1>1 DEF Matches
  <2>2. PICK a \in Resolve[v.host] : a.family = family /\ entry = [addr |-> a.addr, port |-> port(v)]
    BY <2>1 DEF Resolved
  <2>3. entry.addr = a.addr /\ entry.port = port(v)
    BY <2>2
  <2> QED BY <2>1, <2>2, <2>3 DEF PortMatches
<1>2. ASSUME port(v) \in {0, e.port},
             NEW a \in Resolve[v.host], a.family = family, a.addr \in {any, e.addr}
      PROVE  Matches(Resolved(v, family), any, e)
  <2> DEFINE entry == [addr |-> a.addr, port |-> port(v)]
  <2>1. entry \in Resolved(v, family)
    BY <1>2 DEF Resolved
  <2>2. entry.addr = a.addr /\ entry.port = port(v)
    OBVIOUS
  <2>3. entry.addr \in {any, e.addr} /\ PortMatches(entry, e)
    BY <1>2, <2>2 DEF PortMatches
  <2> QED BY <2>1, <2>3 DEF Matches
<1> QED BY <1>1, <1>2

\* Which list is searched for an address.
LEMMA Searched ==
    ASSUME NEW e \in Network, NEW list4, NEW list6
    PROVE  Allowed([ipv4 |-> list4, ipv6 |-> list6], e) <=>
             IF e.family = "v4" THEN Matches(list4, Any4, e) ELSE Matches(list6, Any6, e)
BY Families DEF Allowed, Network

\* The search of validate_network_access in the entries of a single value.
LEMMA NewEntriesGive ==
    ASSUME NEW v \in Values, NEW e \in Network
    PROVE  Allowed(New(v), e) <=> Gives(v, e)
<1>1. v.form \in {"none", "true", "bad", "host", "v4", "v6", "name"}
  BY DEF Values
<1>2. Allowed(New(v), e) <=>
        IF e.family = "v4" THEN Matches(NewIPv4(v), Any4, e) ELSE Matches(NewIPv6(v), Any6, e)
  BY Searched DEF New
<1>3. CASE v.form \in {"none", "bad"}
  <2>1. NewIPv4(v) = {} /\ NewIPv6(v) = {}
    BY <1>3 DEF NewIPv4, NewIPv6
  <2> QED BY <1>2, <1>3, <2>1, MatchesNone DEF Gives, MeansHost
<1>4. CASE v.form \in {"true", "host"}
  <2>1. NewIPv4(v) = {[addr |-> Any4, port |-> port(v)]} /\ NewIPv6(v) = {[addr |-> Any6, port |-> 0]}
    BY <1>4 DEF NewIPv4, NewIPv6
  <2>2. /\ Matches(NewIPv4(v), Any4, e) <=> port(v) \in {0, e.port}
        /\ Matches(NewIPv6(v), Any6, e)
    <3>1. Matches({[addr |-> Any4, port |-> port(v)]}, Any4, e) <=>
            Any4 \in {Any4, e.addr} /\ port(v) \in {0, e.port}
      BY MatchesOne
    <3>2. Matches({[addr |-> Any6, port |-> 0]}, Any6, e) <=>
            Any6 \in {Any6, e.addr} /\ 0 \in {0, e.port}
      BY MatchesOne
    <3> QED BY <2>1, <3>1, <3>2
  <2>3. v.form = "true" => port(v) = 0
    <3>1. v.form = "true" => v.port = NoPort
      BY DEF Values
    <3> QED BY <3>1 DEF port
  <2> QED BY <1>2, <1>4, <2>2, <2>3 DEF Gives, MeansHost
<1>5. CASE v.form = "v4"
  <2>1. NewIPv4(v) = {[addr |-> v.host, port |-> port(v)]} /\ NewIPv6(v) = {}
    BY <1>5 DEF NewIPv4, NewIPv6
  <2>2. /\ Matches(NewIPv4(v), Any4, e) <=> v.host \in {Any4, e.addr} /\ port(v) \in {0, e.port}
        /\ ~Matches(NewIPv6(v), Any6, e)
    <3>1. Matches({[addr |-> v.host, port |-> port(v)]}, Any4, e) <=>
            v.host \in {Any4, e.addr} /\ port(v) \in {0, e.port}
      BY MatchesOne
    <3>2. ~Matches({}, Any6, e)
      BY MatchesNone
    <3> QED BY <2>1, <3>1, <3>2
  <2> QED BY <1>2, <1>5, <2>2 DEF Gives, MeansHost
<1>6. CASE v.form = "v6"
  <2>1. NewIPv6(v) = {[addr |-> v.host, port |-> port(v)]} /\ NewIPv4(v) = {}
    BY <1>6 DEF NewIPv4, NewIPv6
  <2>2. /\ Matches(NewIPv6(v), Any6, e) <=> v.host \in {Any6, e.addr} /\ port(v) \in {0, e.port}
        /\ ~Matches(NewIPv4(v), Any4, e)
    <3>1. Matches({[addr |-> v.host, port |-> port(v)]}, Any6, e) <=>
            v.host \in {Any6, e.addr} /\ port(v) \in {0, e.port}
      BY MatchesOne
    <3>2. ~Matches({}, Any4, e)
      BY MatchesNone
    <3> QED BY <2>1, <3>1, <3>2
  <2> QED BY <1>2, <1>6, <2>2 DEF Gives, MeansHost
<1>7. CASE v.form = "name"
  <2>1. \A a \in Resolve[v.host] : a.family \in {"v4", "v6"}
    BY <1>7, ResolveAssumption DEF Values
  <2>2. NewIPv4(v) = Resolved(v, "v4") /\ NewIPv6(v) = Resolved(v, "v6")
    BY <1>7 DEF NewIPv4, NewIPv6
  <2> QED BY <1>2, <1>7, <2>1, <2>2, MatchesResolved DEF Gives, MeansHost
<1> QED BY <1>1, <1>3, <1>4, <1>5, <1>6, <1>7

\* A parsed value adds what it gives and takes nothing away, also when it
\* clears the lists first.
LEMMA ParsedAdds ==
    ASSUME NEW v \in Values, NEW e \in Network, NEW list \in Lists
    PROVE  Allowed(Parsed(list, v), e) <=> Allowed(list, e) \/ Gives(v, e)
<1>1. CASE Everything(v)
  <2>1. Parsed(list, v) = New(v)
    BY <1>1 DEF Parsed, Cleared, New
  <2>2. Gives(v, e)
    BY <1>1 DEF Everything, Gives, MeansHost
  <2> QED BY <2>1, <2>2, NewEntriesGive
<1>2. CASE ~Everything(v)
  <2>1. Parsed(list, v) = [ipv4 |-> list.ipv4 \cup NewIPv4(v), ipv6 |-> list.ipv6 \cup NewIPv6(v)]
    BY <1>2 DEF Parsed, Cleared
  <2>2. Allowed(Parsed(list, v), e) <=> Allowed(list, e) \/ Allowed(New(v), e)
    <3>1. \A any, S, T : Matches(S \cup T, any, e) <=> Matches(S, any, e) \/ Matches(T, any, e)
      BY DEF Matches
    <3>2. list = [ipv4 |-> list.ipv4, ipv6 |-> list.ipv6]
      BY DEF Lists
    <3> QED BY <2>1, <3>1, <3>2, Searched DEF New
  <2> QED BY <2>2, NewEntriesGive
<1> QED BY <1>1, <1>2

\* Parsing a valid value keeps the type of a list.
LEMMA ParsedType ==
    ASSUME NEW v \in Values, NEW list \in Lists, ~Invalid(v)
    PROVE  Parsed(list, v) \in Lists
<1>1. port(v) \in Ports /\ 0 \in Ports
  BY PortType, PortsAssumption DEF Ports
<1>2. NewIPv4(v) \subseteq Entries(Addrs4)
  <2>1. CASE v.form \in {"true", "host"}
    BY <1>1, <2>1, AddrsAssumption DEF NewIPv4, Entries
  <2>2. CASE v.form = "v4"
    <3>1. v.host \in Addrs4
      BY <2>2 DEF Values
    <3> QED BY <1>1, <2>2, <3>1 DEF NewIPv4, Entries
  <2>3. CASE v.form = "name"
    <3>1. v.host \in Names
      BY <2>3 DEF Values
    <3>2. \A a \in Resolve[v.host] : a.family = "v4" => a.addr \in Addrs4
      BY <3>1, ResolveAssumption
    <3>3. NewIPv4(v) = Resolved(v, "v4")
      BY <2>3 DEF NewIPv4
    <3> QED BY <1>1, <3>2, <3>3 DEF Resolved, Entries
  <2>4. CASE v.form \notin {"true", "host", "v4", "name"}
    BY <2>4 DEF NewIPv4
  <2> QED BY <2>1, <2>2, <2>3, <2>4
<1>3. NewIPv6(v) \subseteq Entries(Addrs6)
  <2>1. CASE v.form \in {"true", "host"}
    BY <1>1, <2>1, AddrsAssumption DEF NewIPv6, Entries
  <2>2. CASE v.form = "v6"
    <3>1. v.host \in Addrs6
      BY <2>2 DEF Values
    <3> QED BY <1>1, <2>2, <3>1 DEF NewIPv6, Entries
  <2>3. CASE v.form = "name"
    <3>1. v.host \in Names
      BY <2>3 DEF Values
    <3>2. \A a \in Resolve[v.host] : a.family = "v6" => a.addr \in Addrs6
      BY <3>1, ResolveAssumption
    <3>3. NewIPv6(v) = Resolved(v, "v6")
      BY <2>3 DEF NewIPv6
    <3> QED BY <1>1, <3>2, <3>3 DEF Resolved, Entries
  <2>4. CASE v.form \notin {"true", "host", "v6", "name"}
    BY <2>4 DEF NewIPv6
  <2> QED BY <2>1, <2>2, <2>3, <2>4
<1> QED BY <1>2, <1>3 DEF Parsed, Lists

-----------------------------------------------------------------------------

\* A value gives what it means, and nothing else unless its port went astray.
LEMMA GivesAsMeant ==
    ASSUME NEW v \in Values, NEW e \in Network, ~Invalid(v)
    PROVE  /\ MeansHost(v, e) /\ MeansPort(v, e) => Gives(v, e)
           /\ Gives(v, e) => MeansHost(v, e) /\ (MeansPort(v, e) \/ Astray(v, e))
<1>1. v.port = NoPort \/ v.port \in Nat
  BY PortsAssumption DEF Values
<1>2. e.port \in Nat /\ e.port <= PortMax
  BY Families, PortsAssumption DEF Ports
<1>3. CASE v.port = NoPort
  BY <1>3 DEF Gives, MeansPort, port
<1>4. CASE v.port \in Nat /\ v.port <= UintMax
  <2>1. port(v) = v.port
    BY <1>4, PortsAssumption DEF port
  <2> QED BY <1>4, <2>1, PortsAssumption DEF Gives, MeansPort, Astray
<1>5. CASE v.port \in Nat /\ v.port > UintMax
  <2>1. Astray(v, e)
    BY <1>5, PortsAssumption DEF Astray
  <2>2. ~MeansPort(v, e)
    BY <1>2, <1>5, PortsAssumption DEF MeansPort
  <2> QED BY <2>1, <2>2 DEF Gives
<1> QED BY <1>1, <1>3, <1>4, <1>5, PortsAssumption

\* One more value of an option that counts keeps a list as asked.
LEMMA ParsedAsAsked ==
    ASSUME NEW options, NEW option \in options, NEW v \in Values, ~Invalid(v), NEW list \in Lists,
           given' = given \cup {<<option, v>>}, AsAsked(list, options), NEW new,
           new = Parsed(list, v)
    PROVE  \A e \in Network :
              /\ Asked(options, e)' => Allowed(new, e)
              /\ Allowed(new, e) => Asked(options, e)' \/ Overgranted(options, e)'
<1> TAKE e \in Network
<1>1. Allowed(new, e) <=> Allowed(list, e) \/ Gives(v, e)
  BY ParsedAdds
<1>2. PICK h \in {<<option, v>>} : h[1] = option /\ h[2] = v
  <2>1. <<option, v>>[1] = option /\ <<option, v>>[2] = v
    OBVIOUS
  <2> QED BY <2>1
<1>3. Asked(options, e)' <=> Asked(options, e) \/ (MeansHost(v, e) /\ MeansPort(v, e))
  <2>1. \A g \in given' : g \in given \/ g = h
    BY <1>2
  <2>2. h \in given' /\ given \subseteq given'
    BY <1>2
  <2>3. h[1] \in options
    BY <1>2
  <2> QED BY <1>2, <2>1, <2>2, <2>3 DEF Asked
<1>4. Overgranted(options, e)' <=> Overgranted(options, e) \/ (MeansHost(v, e) /\ Astray(v, e))
  <2>1. \A g \in given' : g \in given \/ g = h
    BY <1>2
  <2>2. h \in given' /\ given \subseteq given'
    BY <1>2
  <2>3. h[1] \in options
    BY <1>2
  <2> QED BY <1>2, <2>1, <2>2, <2>3 DEF Overgranted
<1> QED BY <1>1, <1>3, <1>4, GivesAsMeant DEF AsAsked

\* As long as only values of --allow-net were seen, what is as asked for one
\* direction is so for the other.
LEMMA AskedByNet ==
    ASSUME \A g \in given : g[1] = "net", NEW list, AsAsked(list, {"net", "connect"})
    PROVE  AsAsked(list, {"net", "listen"})
BY DEF AsAsked, Asked, Overgranted

\* The kernel gives an address of the same kind.
LEMMA AssignedType ==
    ASSUME NEW name \in Endpoints
    PROVE  Assigned(name) \subseteq Endpoints
BY DEF Assigned, Endpoints, Ports

\* If a list allows a name, it allows what the kernel makes of it: with port 0,
\* every port.
LEMMA AssignedAllowed ==
    ASSUME NEW list, NEW name \in Endpoints, Allowed(list, name), NEW e \in Assigned(name)
    PROVE  Allowed(list, e)
<1>1. CASE name.family # "unix" /\ name.port = 0
  <2>1. PICK p \in Ports : e = [name EXCEPT !.port = p]
    BY <1>1 DEF Assigned
  <2>2. e.family = name.family /\ e.addr = name.addr
    BY <2>1 DEF Endpoints
  <2>3. \A entries, any : Matches(entries, any, name) => Matches(entries, any, e)
    BY <1>1, <2>2 DEF Matches, PortMatches
  <2> QED BY <2>2, <2>3 DEF Allowed
<1>2. CASE ~(name.family # "unix" /\ name.port = 0)
  BY <1>2 DEF Assigned
<1> QED BY <1>1, <1>2

\* Values parsed before the VM is built leave the guest as it is: it has no
\* socket.
LEMMA GuestWaits ==
    ASSUME NetInv, stage # "ready", UNCHANGED guest
    PROVE  /\ socket' = Nowhere
           /\ socket' = Nowhere => bound' = Nowhere /\ ~listening'
           /\ ~BoundByFamily'
BY DEF NetInv, guest, BoundByFamily

\* NetInv is inductive, one step per action of Next.
LEMMA NetInductive == NetInv /\ [Next]_vars => NetInv'
<1> SUFFICES ASSUME NetInv, [Next]_vars PROVE NetInv'
  OBVIOUS
<1>1. ASSUME NEW v \in Values, NEW o \in Options, Reject(o, v) PROVE NetInv'
  <2>1. TypeOK'
    BY <1>1 DEF Reject, Give, NetInv, TypeOK, guest, lists, Options
  <2>2. stage # "ready" /\ UNCHANGED guest /\ stage' = "exited"
    BY <1>1 DEF Reject, Give, Options
  <2> QED BY <2>1, <2>2, GuestWaits DEF NetInv
<1>2. ASSUME NEW v \in Values, AllowNet(v) PROVE NetInv'
  <2>1. /\ stage = "net" /\ given' = given \cup {<<"net", v>>} /\ UNCHANGED guest
        /\ allowed_connect' = Parsed(allowed_connect, v) /\ ~Invalid(v)
    BY <1>2 DEF AllowNet, Give
  <2>2. allowed_connect \in Lists /\ allowed_connect' \in Lists
    BY <2>1, ParsedType DEF NetInv, TypeOK
  <2>3. AsAsked(allowed_connect, {"net", "connect"})'
    <3>1. AsAsked(allowed_connect, {"net", "connect"})
      BY <2>1 DEF NetInv
    <3> QED BY <2>1, <2>2, <3>1, ParsedAsAsked DEF AsAsked
  <2>4. \A g \in given' : g[1] = "net"
    BY <2>1 DEF NetInv
  <2>5. given' \subseteq Options \X Values
    BY <2>1 DEF NetInv, TypeOK, Options
  <2>6. CASE Everything(v)
    <3>1. stage' = "ready" /\ allowed_listen' = allowed_connect'
      BY <1>2, <2>6 DEF AllowNet, CopyToListen
    <3>2. AsAsked(allowed_listen, {"net", "listen"})'
      BY <2>3, <2>4, <3>1 DEF AsAsked, Asked, Overgranted
    <3>3. TypeOK'
      BY <2>1, <2>2, <2>5, <3>1 DEF NetInv, TypeOK, guest
    <3> QED BY <2>1, <2>3, <3>1, <3>2, <3>3, GuestWaits DEF NetInv
  <2>7. CASE ~Everything(v)
    <3>1. stage' = stage /\ allowed_listen' = allowed_listen
      BY <1>2, <2>7 DEF AllowNet
    <3>2. TypeOK'
      BY <2>1, <2>2, <2>5, <3>1 DEF NetInv, TypeOK, guest
    <3> QED BY <2>1, <2>3, <2>4, <3>1, <3>2, GuestWaits DEF NetInv
  <2> QED BY <2>6, <2>7
<1>3. ASSUME NEW v \in Values, AllowConnect(v) PROVE NetInv'
  <2>1. /\ stage = "connect" /\ given' = given \cup {<<"connect", v>>} /\ UNCHANGED guest
        /\ allowed_connect' = Parsed(allowed_connect, v) /\ ~Invalid(v)
        /\ stage' \in {"connect", "listen"} /\ allowed_listen' = allowed_listen
    BY <1>3 DEF AllowConnect, Give
  <2>2. allowed_connect \in Lists /\ allowed_connect' \in Lists
    BY <2>1, ParsedType DEF NetInv, TypeOK
  <2>3. TypeOK'
    BY <2>1, <2>2 DEF NetInv, TypeOK, Options, guest
  <2>4. AsAsked(allowed_connect, {"net", "connect"})'
    <3>1. AsAsked(allowed_connect, {"net", "connect"})
      BY <2>1 DEF NetInv
    <3> QED BY <2>1, <2>2, <3>1, ParsedAsAsked DEF AsAsked
  <2>5. AsAsked(allowed_listen, {"net", "listen"})'
    BY <2>1 DEF NetInv, AsAsked, Asked, Overgranted
  <2>6. \A g \in given' : g[1] # "listen"
    BY <2>1 DEF NetInv
  <2> QED BY <2>1, <2>3, <2>4, <2>5, <2>6, GuestWaits DEF NetInv
<1>4. ASSUME NEW v \in Values, AllowListen(v) PROVE NetInv'
  <2>1. /\ stage = "listen" /\ given' = given \cup {<<"listen", v>>} /\ UNCHANGED guest
        /\ allowed_listen' = Parsed(allowed_listen, v) /\ ~Invalid(v)
        /\ stage' \in {"listen", "ready"} /\ allowed_connect' = allowed_connect
    BY <1>4 DEF AllowListen, Give
  <2>2. allowed_listen \in Lists /\ allowed_listen' \in Lists
    BY <2>1, ParsedType DEF NetInv, TypeOK
  <2>3. TypeOK'
    BY <2>1, <2>2 DEF NetInv, TypeOK, Options, guest
  <2>4. AsAsked(allowed_listen, {"net", "listen"})'
    <3>1. AsAsked(allowed_listen, {"net", "listen"})
      BY <2>1 DEF NetInv
    <3> QED BY <2>1, <2>2, <3>1, ParsedAsAsked DEF AsAsked
  <2>5. AsAsked(allowed_connect, {"net", "connect"})'
    BY <2>1 DEF NetInv, AsAsked, Asked, Overgranted
  <2> QED BY <2>1, <2>3, <2>4, <2>5, GuestWaits DEF NetInv
<1>5. ASSUME NextOption PROVE NetInv'
  <2>1. TypeOK'
    BY <1>5 DEF NextOption, CopyToListen, NetInv, TypeOK, Options, guest, lists
  <2>2. /\ given' = given /\ allowed_connect' = allowed_connect /\ UNCHANGED guest
        /\ stage \notin {"ready", "exited"} /\ stage' \notin {"net", "exited"}
    BY <1>5 DEF NextOption, lists
  <2>3. AsAsked(allowed_connect, {"net", "connect"})'
    BY <2>2 DEF NetInv, AsAsked, Asked, Overgranted
  <2>4. CASE stage = "net"
    <3>1. stage' = "connect" /\ allowed_listen' = allowed_connect
      BY <1>5, <2>2, <2>4 DEF NextOption, CopyToListen
    <3>2. AsAsked(allowed_connect, {"net", "listen"})
      BY <2>4, AskedByNet DEF NetInv
    <3>3. AsAsked(allowed_listen, {"net", "listen"})'
      BY <2>2, <3>1, <3>2 DEF AsAsked, Asked, Overgranted
    <3> QED BY <2>1, <2>2, <2>3, <2>4, <3>1, <3>3, GuestWaits DEF NetInv
  <2>5. CASE stage # "net"
    <3>1. allowed_listen' = allowed_listen /\ stage' \in {"listen", "ready"}
      BY <1>5, <2>5 DEF NextOption, lists
    <3>2. AsAsked(allowed_listen, {"net", "listen"})'
      BY <2>2, <2>5, <3>1 DEF NetInv, AsAsked, Asked, Overgranted
    <3> QED BY <2>1, <2>2, <2>3, <3>1, <3>2, GuestWaits DEF NetInv
  <2> QED BY <2>4, <2>5
<1>6. ASSUME stage = "ready", UNCHANGED <<stage, given, lists>>, TypeOK',
             socket' # Nowhere, BoundByFamily' => Allowed(allowed_listen, socket')
      PROVE  NetInv'
  BY <1>6 DEF NetInv, lists, AsAsked, Asked, Overgranted
<1>7. ASSUME NEW e \in Endpoints, Bind(e) PROVE NetInv'
  <2>1. /\ stage = "ready" /\ UNCHANGED <<stage, given, lists, fork, listening>>
        /\ bound' = e /\ socket' \in Assigned(Named(e)) /\ Allowed(allowed_listen, e)
    BY <1>7 DEF Bind, bind_socket_callback
  <2>2. Named(e) \in Endpoints
    BY AddrsAssumption DEF Named, Endpoints
  <2>3. socket' \in Endpoints
    BY <2>1, <2>2, AssignedType
  <2>4. TypeOK'
    BY <2>1, <2>3 DEF NetInv, TypeOK, lists
  <2>5. ASSUME BoundByFamily' PROVE Allowed(allowed_listen, socket')
    <3>1. Named(e) = e
      BY <2>1, <2>5 DEF BoundByFamily, Named
    <3> QED BY <2>1, <3>1, AssignedAllowed
  <2> QED BY <1>6, <2>1, <2>3, <2>4, <2>5, NowhereAssumption
<1>8. ASSUME ListenBound PROVE NetInv'
  <2>1. /\ stage = "ready" /\ socket # Nowhere /\ listening' = TRUE
        /\ UNCHANGED <<stage, given, lists, fork, bound, socket>>
    BY <1>8 DEF ListenBound
  <2>2. TypeOK'
    BY <2>1 DEF NetInv, TypeOK, lists
  <2> QED BY <1>6, <2>1, <2>2 DEF NetInv, BoundByFamily
<1>9. ASSUME NEW name \in Unnamed, ListenUnbound(name) PROVE NetInv'
  <2>1. /\ stage = "ready" /\ socket = Nowhere /\ socket' \in Assigned(name) /\ listening' = TRUE
        /\ UNCHANGED <<stage, given, lists, fork, bound>>
    BY <1>9 DEF ListenUnbound
  <2>2. name \in Endpoints
    BY AddrsAssumption, PortsAssumption DEF Unnamed, Endpoints, Ports
  <2>3. socket' \in Endpoints
    BY <2>1, <2>2, AssignedType
  <2>4. TypeOK'
    BY <2>1, <2>3 DEF NetInv, TypeOK, lists
  <2>5. ~BoundByFamily'
    BY <2>1 DEF NetInv, BoundByFamily
  <2> QED BY <1>6, <2>1, <2>3, <2>4, <2>5, NowhereAssumption
<1>10. CASE UNCHANGED vars
  BY <1>10 DEF vars, lists, guest, NetInv, TypeOK, AsAsked, Asked, Overgranted, BoundByFamily
<1> QED
  BY <1>1, <1>2, <1>3, <1>4, <1>5, <1>7, <1>8, <1>9, <1>10 DEF Next

\* Before any option nothing is allowed and nothing was asked for.
LEMMA NetInitially == Init => NetInv
<1> SUFFICES ASSUME Init PROVE NetInv
  OBVIOUS
<1>1. TypeOK
  BY DEF Init, TypeOK, Options, Lists, NoEntries
<1>2. \A e \in Network : ~Allowed(NoEntries, e)
  BY MatchesNone, Searched DEF NoEntries
<1> QED BY <1>1, <1>2 DEF Init, NetInv, AsAsked, Asked, BoundByFamily

\* NetInv holds in every reachable state.
THEOREM NetInvariant == Spec => []NetInv
BY NetInitially, NetInductive, PTL DEF Spec

\* The callbacks allow what the options ask for, and nothing else but other
\* ports of a host whose port parse_addresses loses.
THEOREM NetAccessAsAsked == Spec => []AccessAsAsked
<1>1. NetInv => AccessAsAsked
  BY DEF NetInv, AccessAsAsked, AsAsked, connect_socket_callback, bind_socket_callback
<1> QED BY <1>1, NetInvariant, PTL

\* No option takes a permission back.
THEOREM NetOptionsOnlyGrant == Spec => OptionsOnlyGrant
<1> DEFINE Grows == \A e \in Network :
        /\ Allowed(allowed_connect, e) => Allowed(allowed_connect, e)'
        /\ Allowed(allowed_listen, e) => Allowed(allowed_listen, e)'
<1>1. NetInv /\ [Next]_vars => [Grows]_lists
  <2> SUFFICES ASSUME NetInv, Next, NEW e \in Network
               PROVE  \/ UNCHANGED lists
                      \/ /\ Allowed(allowed_connect, e) => Allowed(allowed_connect, e)'
                         /\ Allowed(allowed_listen, e) => Allowed(allowed_listen, e)'
    BY DEF vars, lists
  <2>1. ASSUME NEW v \in Values, AllowNet(v)
        PROVE  /\ Allowed(allowed_connect, e) => Allowed(allowed_connect, e)'
               /\ Allowed(allowed_listen, e) => Allowed(allowed_listen, e)'
    <3>1. Allowed(allowed_connect, e) => Allowed(allowed_connect, e)'
      BY <2>1, ParsedAdds DEF AllowNet, NetInv, TypeOK
    <3>2. ~Allowed(allowed_listen, e)
      BY <2>1, MatchesNone, Searched DEF AllowNet, Give, NetInv, NoEntries
    <3> QED BY <3>1, <3>2
  <2>2. ASSUME NEW v \in Values, AllowConnect(v)
        PROVE  /\ Allowed(allowed_connect, e) => Allowed(allowed_connect, e)'
               /\ Allowed(allowed_listen, e) => Allowed(allowed_listen, e)'
    BY <2>2, ParsedAdds DEF AllowConnect, NetInv, TypeOK
  <2>3. ASSUME NEW v \in Values, AllowListen(v)
        PROVE  /\ Allowed(allowed_connect, e) => Allowed(allowed_connect, e)'
               /\ Allowed(allowed_listen, e) => Allowed(allowed_listen, e)'
    BY <2>3, ParsedAdds DEF AllowListen, NetInv, TypeOK
  <2>4. ASSUME NextOption
        PROVE  /\ Allowed(allowed_connect, e) => Allowed(allowed_connect, e)'
               /\ Allowed(allowed_listen, e) => Allowed(allowed_listen, e)'
    <3>1. allowed_connect' = allowed_connect /\ (stage # "net" => allowed_listen' = allowed_listen)
      BY <2>4 DEF NextOption, lists
    <3>2. stage = "net" => ~Allowed(allowed_listen, e)
      BY MatchesNone, Searched DEF NetInv, NoEntries
    <3> QED BY <3>1, <3>2
  <2> QED
    BY <2>1, <2>2, <2>3, <2>4 DEF Next, Reject, Bind, ListenBound, ListenUnbound
<1> QED BY <1>1, NetInvariant, PTL DEF Spec, OptionsOnlyGrant

\* A socket listens only where the listen lists allow it, in the main VM and,
\* bound by family, in a fork.
THEOREM NetListensWhereAllowed == Spec => []ListensWhereAllowed
<1>1. Init => ListensWhereAllowed
  BY DEF Init, ListensWhereAllowed
<1>2. NetInv /\ NetInv' /\ ListensWhereAllowed /\ [Next]_vars => ListensWhereAllowed'
  <2> SUFFICES ASSUME NetInv, NetInv', ListensWhereAllowed, [Next]_vars, listening',
                      fork' => BoundByFamily'
               PROVE  Allowed(allowed_listen, socket)'
    BY DEF ListensWhereAllowed
  <2>1. CASE BoundByFamily'
    BY <2>1 DEF NetInv
  <2>2. CASE ~BoundByFamily' /\ ListenBound
    <3>1. ~fork
      BY <2>2 DEF ListenBound
    <3> QED BY <2>2, <3>1 DEF ListenBound, listening_socket_callback, validate_listener, lists
  <2>3. ASSUME ~BoundByFamily', NEW name \in Unnamed, ListenUnbound(name)
        PROVE  Allowed(allowed_listen, socket)'
    <3>1. name \in Endpoints
      BY AddrsAssumption, PortsAssumption DEF Unnamed, Endpoints, Ports
    <3>2. ~fork /\ socket' \in Assigned(name) /\ allowed_listen' = allowed_listen
      BY <2>3 DEF ListenUnbound, lists
    <3>3. Allowed(allowed_listen, name)
      BY <2>3, <3>2 DEF ListenUnbound, listening_socket_callback, validate_listener
    <3>4. Allowed(allowed_listen, socket')
      BY <3>1, <3>2, <3>3, AssignedAllowed
    <3> QED BY <3>2, <3>4
  <2>4. CASE ~BoundByFamily' /\ ~ListenBound /\ ~(\E name \in Unnamed : ListenUnbound(name))
    <3>1. listening' = listening /\ fork' = fork
      BY <2>4 DEF Next, Reject, AllowNet, AllowConnect, AllowListen, Give, NextOption, Bind,
         vars, guest
    <3>2. stage = "ready" /\ socket # Nowhere /\ ~fork
      BY <2>4, <3>1 DEF NetInv
    <3>3. UNCHANGED <<allowed_listen, socket>>
      BY <2>4, <3>2 DEF Next, Reject, AllowNet, AllowConnect, AllowListen, Give, NextOption,
         Bind, vars, guest, lists, Options
    <3> QED BY <3>1, <3>2, <3>3 DEF ListensWhereAllowed
  <2> QED BY <2>1, <2>2, <2>3, <2>4
<1> QED BY <1>1, <1>2, NetInvariant, PTL DEF Spec

=============================================================================
