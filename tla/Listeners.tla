------------------------------- MODULE Listeners -------------------------------
(***************************************************************************)
(* internal/listener: whether somebody listens on the port a rule          *)
(* redirects to, read from /proc/net.                                      *)
(*                                                                         *)
(* A socket is a record: the table it stands in (its family and protocol), *)
(* its port, its local address ("any", "loopback", or "host": one of an    *)
(* interface), whether it listens (of UDP: is not connected to a peer),    *)
(* and whether it is dual, an IPv6 socket without IPV6_V6ONLY.  The tables *)
(* show neither the last nor, of UDP, what the code asks for.  Tables that *)
(* cannot be read, which the report calls an error, are left out.          *)
(***************************************************************************)
EXTENDS RuleModel

\* Mutant: only a socket bound to every address counts, also in the rule's own family.
ContainsPortWildcard(table, proto, port, wildcardOnly) ==
  \E s \in table : s.port = port /\ (proto = "tcp" => s.listens) /\ s.addr = "any"

\* scanSockets: a line of the port, of a listening socket if the protocol knows the
\* difference, of a wildcard address if only those are asked for.
ContainsPort(table, proto, port, wildcardOnly) ==
  \E s \in table :
    /\ s.port = port
    /\ proto = "tcp" => s.listens
    /\ wildcardOnly => s.addr = "any"

\* socketPath: the table of a family and protocol.
SocketTable(sockets, ip, proto) == {s \in sockets : s.ip = ip /\ s.proto = proto}

\* ipv6WildcardAcceptsIPv4.
IPv6WildcardAcceptsIPv4(sockets, bindv6only, proto, port) ==
  /\ ~bindv6only
  /\ ContainsPort(SocketTable(sockets, 6, proto), proto, port, TRUE)

\* Inspector.Check of a rule with key k, when it can read the tables.
Up(k, sockets, bindv6only) ==
  \/ ContainsPort(SocketTable(sockets, k.ip, k.proto), k.proto, k.to, FALSE)
  \/ k.ip = 4 /\ IPv6WildcardAcceptsIPv4(sockets, bindv6only, k.proto, k.to)

--------------------------------------------------------------------------------
(* What the kernel does: the reference.  REDIRECT in PREROUTING sends a       *)
(* packet to the address of the interface it came in by, of its own family.   *)

\* Local addresses such a packet is delivered to.
Reached == {"any", "host"}

\* The socket takes packets of a family: of its own, or IPv4 mapped into IPv6.
TakesFamily(s, ip) == s.ip = ip \/ (ip = 4 /\ s.ip = 6 /\ s.addr = "any" /\ s.dual)

\* The socket answers a stranger whose packet was redirected to the port.
Serves(s, ip, proto, port) ==
  /\ s.proto = proto /\ s.port = port /\ s.listens
  /\ s.addr \in Reached
  /\ TakesFamily(s, ip)

\* The socket was opened under the sysctl's present value and keeps to it.
KeepsDefault(s, bindv6only) == s.ip = 6 => (s.dual <=> ~bindv6only)
================================================================================
