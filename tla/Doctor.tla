--------------------------------- MODULE Doctor ---------------------------------
(***************************************************************************)
(* What pmm learns about the host around it, and what it does with that:   *)
(* edits inspect other programs' redirects before they are applied         *)
(* (transaction.go checkExternalConflicts), and `pmm doctor` reports       *)
(* conflicts and targets nobody listens on (Collect in                     *)
(* internal/diagnostics).  Other programs change their redirects, services *)
(* open and close sockets, between any two of PMM's steps.                 *)
(*                                                                         *)
(* The rules are the enabled ones, by key; that database and kernel hold   *)
(* the same ones, and that one edit runs at a time, is Transaction's       *)
(* subject.  The queue of a walk is a set: which chain of it comes next    *)
(* makes no difference to what is found.                                   *)
(***************************************************************************)
EXTENDS ExternalRules, Listeners

CONSTANTS
  Lines,      \* lines other programs may add
  Sockets,    \* sockets services may open
  MaxThings,  \* how many of them there may be at a time
  MaxDrift    \* how many lines may come and go while an inspection looks at a listing

ASSUME LinesAssumption ==
  \A l \in Lines :
    l.ip \in Families /\ l.lo \in Nat /\ l.hi \in Nat /\ l.ports \in {"all", "range", "list", "not"}

VARIABLES
  rules,      \* keys of PMM's enabled rules
  foreign,    \* lines other programs have in the NAT table
  sockets,    \* open sockets
  bindv6only, \* the sysctl of that name
  at,         \* "idle", or "inspecting": a command is in inspectExternal, or holds its result
  listed,     \* the lines it has been printed
  unlisted,   \* families it has not listed yet
  queue,      \* nodes reachableRules has still to visit,
  visited,    \*   those it has visited,
  found       \*   and the lines it has collected

world == <<rules, foreign, sockets, bindv6only>>
inspection == <<at, listed, unlisted, queue, visited, found>>
doctorVars == <<rules, foreign, sockets, bindv6only, at, listed, unlisted, queue, visited, found>>

DoctorInit ==
  /\ rules = {} /\ foreign = {} /\ sockets = {}
  /\ bindv6only \in BOOLEAN
  /\ at = "idle" /\ listed = {} /\ unlisted = {} /\ queue = {} /\ visited = {} /\ found = {}

--------------------------------------------------------------------------------
(* inspectExternal: for each family, list the table and walk over the       *)
(* listing.                                                                 *)

NatTable == foreign \cup OwnLines(rules)

Begin ==
  /\ at = "idle"
  /\ at' = "inspecting" /\ unlisted' = Families
  /\ UNCHANGED <<listed, queue, visited, found, world>>

\* `-S` of the next family, when the walk of the one before is over.
List(ip) ==
  /\ at = "inspecting" /\ queue = {}
  /\ ip \in unlisted /\ \A other \in unlisted : ip <= other
  /\ listed' = listed \cup {l \in NatTable : l.ip = ip}
  /\ unlisted' = unlisted \ {ip}
  /\ queue' = {<<ip, Hook>>}
  /\ UNCHANGED <<at, visited, found, world>>

\* A chain is visited once, whatever jumps to it.
Skip(node) ==
  /\ node \in queue \cap visited
  /\ queue' = queue \ {node}
  /\ UNCHANGED <<at, listed, unlisted, visited, found, world>>

Visit(node) ==
  /\ node \in queue \ visited
  /\ visited' = visited \cup {node}
  /\ found' = found \cup LinesOf(listed, node)
  /\ queue' = (queue \ {node}) \cup Targets(listed, node)
  /\ UNCHANGED <<at, listed, unlisted, world>>

\* Both families are through.
Inspected == at = "inspecting" /\ unlisted = {} /\ queue = {}

EndInspection ==
  at' = "idle" /\ listed' = {} /\ unlisted' = {} /\ queue' = {} /\ visited' = {} /\ found' = {}

\* The command ends: with its report, with a refusal, or before either.
Leave == at = "inspecting" /\ EndInspection /\ UNCHANGED world

--------------------------------------------------------------------------------
(* What a command does with the result *)

\* Mutant: only the rule that is new is held against the external ranges.
NewRulesOnly(K) == NoConflict(K \ rules, Inspection(found))

\* The inspection under the lock, of every rule the command wants enabled.
Allowed(K) == NoConflict(K, Inspection(found))

\* A transaction that enables the keys K.
Apply(K) ==
  /\ Inspected
  /\ \A k \in K : Validate(k)
  /\ \A j, k \in K : j # k => ~Overlaps(j, k)
  /\ Allowed(K)
  /\ rules' = K
  /\ EndInspection
  /\ UNCHANGED <<foreign, sockets, bindv6only>>

\* What `pmm doctor` says: that external rules could not be checked, or which rules
\* conflict with them, and which rules lead to no listener.
Unchecked == Inspection(found).failed
Conflicts == IF Unchecked THEN {} ELSE Conflicting(rules, Inspection(found))
Unheard == {k \in rules : ~Up(k, sockets, bindv6only)}

--------------------------------------------------------------------------------
(* The rest of the host *)

Room == Cardinality(foreign) + Cardinality(sockets) < MaxThings

\* The lines by which the listing is out of date.
OutOfDate ==
  LET now == {l \in NatTable : l.ip \notin unlisted} IN (now \ listed) \cup (listed \ now)
MayMove == at = "idle" \/ Cardinality(OutOfDate) < MaxDrift

AddLine == MayMove /\ Room /\ \E l \in Lines \ foreign : foreign' = foreign \cup {l}
DropLine == MayMove /\ \E l \in foreign : foreign' = foreign \ {l}
Open == Room /\ \E s \in Sockets \ sockets : sockets' = sockets \cup {s}
Close == \E s \in sockets : sockets' = sockets \ {s}

OtherPrograms == (AddLine \/ DropLine) /\ UNCHANGED <<rules, sockets, bindv6only, inspection>>
Services == (Open \/ Close) /\ UNCHANGED <<rules, foreign, bindv6only, inspection>>
Sysctl == bindv6only' = ~bindv6only /\ UNCHANGED <<rules, foreign, sockets, inspection>>

DoctorNext ==
  \/ Begin \/ Leave
  \/ \E ip \in Families : List(ip)
  \/ \E node \in queue : Skip(node) \/ Visit(node)
  \/ \E K \in SUBSET Keys : Apply(K)
  \/ OtherPrograms \/ Services \/ Sysctl

DoctorSpec == DoctorInit /\ [][DoctorNext]_doctorVars

--------------------------------------------------------------------------------
(* Properties.  They are about what was listed: whatever changes after that  *)
(* is for the next inspection to find.                                       *)

\* The packets a key redirects that another program may redirect instead, at the ends of
\* its range and of the ranges of other lines.
Edges(k) == {p \in {k.lo, k.hi} \cup {l.lo : l \in listed} \cup {l.hi : l \in listed} : p \in Ports(k)}
Contested(k) == \E port \in Edges(k) : Taken(listed, k.ip, k.proto, port)

\* Lines whose effect can be read off the line itself: a line that rewrites destinations
\* names its protocol, other than by the one it leaves out, and chains are entered by jumps.
Plain ==
  \A l \in listed : l.via = "-j" /\ (l.target = Rewrite => l.proto \notin {"any"} \cup Negations)

Announced(k) == Unchecked \/ k \in Conflicts

\* Every rule whose packets another program may take is reported, or the report says that
\* external rules could not be checked, through whatever chains, cycles included, the
\* packets get there (iptables.go:226-268, diagnostics.go:70-83).
ConflictsAreReported == Inspected /\ Plain => \A k \in rules : Contested(k) => Announced(k)

\* The same without the condition: what iptables.go:218-220 promises ("fail-closed parsing
\* for all other PREROUTING rules").
FailClosed == Inspected => \A k \in rules : Contested(k) => Announced(k)

\* A transaction never puts a rule beside a redirect of another program that takes some of
\* its packets, also not one it leaves as it was.
CommitsAvoidOthers ==
  [][rules' # rules /\ Plain => \A k \in rules' : ~Contested(k)]_doctorVars

\* PMM's own chains are never taken for somebody else's: with nobody else in the listing,
\* nothing is reported and the rules in force are allowed.
NoSelfConflict ==
  Inspected /\ listed \subseteq OwnLines(rules) =>
    ~Unchecked /\ Conflicts = {} /\ Allowed(rules)

Served(k) == \E s \in sockets : Serves(s, k.ip, k.proto, k.to)

\* A target reported unheard is served by nobody, through IPv6 neither, as long as IPv6
\* sockets keep to the system's IPV6_V6ONLY (listener.go:55-95).
WarningsAreTrue ==
  (\A s \in sockets : KeepsDefault(s, bindv6only)) => \A k \in Unheard : ~Served(k)

\* The same of sockets that were opened under another value of the sysctl, or chose their
\* own.
WarningsAreAlwaysTrue == \A k \in Unheard : ~Served(k)

\* A target that is not reported is served: what "UP" says (listener.go:18, 28).
HeardIsServed == \A k \in rules \ Unheard : Served(k)
================================================================================
