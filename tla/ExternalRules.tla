----------------------------- MODULE ExternalRules -----------------------------
(***************************************************************************)
(* What the backend finds other programs redirect: inspectExternal with    *)
(* reachableRules (internal/firewall/iptables.go), and the conflict check  *)
(* that uses it (transaction.go checkExternalConflicts, Collect in         *)
(* internal/diagnostics).                                                  *)
(*                                                                         *)
(* A line of `iptables -t nat -S` is a record: the family it was printed   *)
(* for, its chain, the protocol it matches ("any" if all of them, "!tcp"    *)
(* or "!udp" if all but one), how it matches destination ports ("all",     *)
(* "range", "list" for multiport, "not" for a negated one), the range, and *)
(* where it goes: via "-j" or "-g" to a custom chain, to PMM's entry       *)
(* chain, or to a target that rewrites the destination.  Every other       *)
(* condition of a line may or may not hold.                                *)
(***************************************************************************)
EXTENDS RuleModel

CONSTANTS
  CustomChains,  \* chains other programs declare
  Entry          \* PMM's entry chain

ASSUME ChainsAssumption ==
  Entry \notin CustomChains \cup {"PREROUTING", "REDIRECT"} /\ "REDIRECT" \notin CustomChains

Hook == "PREROUTING"
Rewrite == "REDIRECT"
Protocols == {"tcp", "udp"}
Negations == {"!tcp", "!udp"}

\* The chains an `-N` line declares, PMM's among them.
Declared == CustomChains \cup {Entry}

Line(ip, chain, proto, ports, lo, hi, via, target) ==
  [ip |-> ip, chain |-> chain, proto |-> proto, ports |-> ports, lo |-> lo, hi |-> hi,
   via |-> via, target |-> target]

\* The lines PMM's own rules are printed as: the anchor, and the redirects behind the
\* entry chain (its active generation is left out: nothing else leads there).
AnchorLine(ip) == Line(ip, Hook, "any", "all", 1, MaxPort, "-j", Entry)
OwnLines(keys) ==
  {AnchorLine(ip) : ip \in Families} \cup
  {Line(k.ip, Entry, k.proto, "range", k.lo, k.hi, "-j", Rewrite) : k \in keys}

--------------------------------------------------------------------------------
(* reachableRules.  A node of its walk is a chain of a family.              *)

LinesOf(table, node) == {l \in table : l.ip = node[1] /\ l.chain = node[2]}

\* Mutant: the walk goes on into PMM's own chains.
FollowedOwnToo(l) == l.via = "-j" /\ l.target \in Declared

Followed(l) == l.via = "-j" /\ l.target \in Declared \ {Entry}

\* The nodes a visit puts into the queue.
Targets(table, node) == {<<node[1], l.target>> : l \in {m \in LinesOf(table, node) : Followed(m)}}

--------------------------------------------------------------------------------
(* inspectExternal *)

\* The field after "-p": a negation in front of it is not looked at.
Named(l) ==
  IF l.proto = "!tcp" THEN "tcp" ELSE IF l.proto = "!udp" THEN "udp" ELSE l.proto

IsAnchor(l) == l.chain = Hook /\ l.target = Entry /\ l.via = "-j"

\* Mutant: a multiport line counts as one without ports.
UnreadableNegationOnly(l) == l.ports = "not" \/ (l.ports = "range" /\ Named(l) \notin Protocols)

\* Lines that make the inspection fail.
Unreadable(l) ==
  \/ l.ports \in {"not", "list"}
  \/ l.ports = "range" /\ Named(l) \notin Protocols

\* Lines that count as redirecting their ports: those that name ports, wherever they go,
\* and those that name a protocol only and leave for no declared chain.
Counts(l) ==
  \/ l.ports = "range"
  \/ l.ports = "all" /\ Named(l) \in Protocols /\ l.via = "-j" /\ l.target \notin Declared

\* All ports, if the line names none.
RangeOf(l) ==
  IF l.ports = "range" THEN [ip |-> l.ip, proto |-> Named(l), lo |-> l.lo, hi |-> l.hi]
  ELSE [ip |-> l.ip, proto |-> Named(l), lo |-> 1, hi |-> MaxPort]

\* What the lines a walk found amount to.
Inspection(found) ==
  LET lines == {l \in found : ~IsAnchor(l)}
  IN [failed |-> \E l \in lines : Unreadable(l),
      ranges |-> {RangeOf(l) : l \in {m \in lines : Counts(m)}}]

\* The keys that share a port with an external range.
Conflicting(keys, external) ==
  {k \in keys : \E range \in external.ranges : Overlaps(k, range)}

\* checkExternalConflicts finds nothing to object to.
NoConflict(keys, external) == ~external.failed /\ Conflicting(keys, external) = {}

--------------------------------------------------------------------------------
(* What the kernel does: the reference.  A packet enters PREROUTING and      *)
(* follows any jump or goto of a line it matches.                            *)

Matches(l, ip, proto, port) ==
  /\ l.ip = ip
  /\ l.proto \in {proto, "any"} \/ (l.proto \in Negations /\ Named(l) # proto)
  /\ \/ l.ports = "all"
     \/ l.ports \in {"range", "list"} /\ port \in l.lo .. l.hi
     \/ l.ports = "not" /\ port \notin l.lo .. l.hi

\* The chains the packet may get to: those in every set of chains that holds the hook and
\* that no line it matches leads out of.
ChainsMet(table, ip, proto, port) ==
  LET Chains == CustomChains \cup {Hook}
      Closed(S) == \A l \in table : l.chain \in S /\ l.target \in CustomChains
                                      /\ Matches(l, ip, proto, port) => l.target \in S
  IN {c \in Chains : \A S \in SUBSET Chains : Hook \in S /\ Closed(S) => c \in S}

\* Another program may rewrite the destination of such a packet.
Taken(table, ip, proto, port) ==
  \E l \in table :
    /\ l.target = Rewrite
    /\ l.chain \in ChainsMet(table, ip, proto, port)
    /\ Matches(l, ip, proto, port)
================================================================================
